---- MODULE Spec2Model ----
(***************************************************************************)
(* A model of the ulauncher Toggl extension: the column-table parser, the  *)
(* record cache, the tracker and project adapters of the external toggl    *)
(* command-line tool (toggl/toggl_cli.py) and the query tokenizer          *)
(* (extension.py).                                                         *)
(*                                                                         *)
(* Text is modelled as a sequence of one-character strings, so that        *)
(* slicing, stripping and splitting are computed as the code computes      *)
(* them.  Words of a command line and keys of dictionaries are TLA+        *)
(* strings.                                                                *)
(***************************************************************************)
EXTENDS Integers, Sequences, FiniteSets, TLC

(***************************************************************************)
(* Bounds of the model.                                                    *)
(***************************************************************************)
\* the number of times the wall clock is advanced in one behaviour
MaxTicks == 3

(***************************************************************************)
(* Python string primitives.                                               *)
(***************************************************************************)
Min(a, b) == IF a < b THEN a ELSE b

Max(a, b) == IF a > b THEN a ELSE b

Range(f) == {f[i] : i \in DOMAIN f}

UpperCase ==
    <<"A", "B", "C", "D", "E", "F", "G", "H", "I", "J", "K", "L", "M",
      "N", "O", "P", "Q", "R", "S", "T", "U", "V", "W", "X", "Y", "Z">>

LowerCase ==
    <<"a", "b", "c", "d", "e", "f", "g", "h", "i", "j", "k", "l", "m",
      "n", "o", "p", "q", "r", "s", "t", "u", "v", "w", "x", "y", "z">>

Digits == <<"0", "1", "2", "3", "4", "5", "6", "7", "8", "9">>

Whitespace == {" ", "\n"}

\* str.isalpha on one character
Letters == Range(UpperCase) \cup Range(LowerCase)

isalpha(c) == c \in Letters

\* str.isalnum or "_" on one character: the regular expression class \w
isword(c) == isalpha(c) \/ c \in Range(Digits) \/ c = "_"

\* str.lower on one character
lower_char(c) ==
    IF c \in Range(UpperCase)
    THEN LowerCase[CHOOSE i \in DOMAIN UpperCase : UpperCase[i] = c]
    ELSE c

\* str.lower
lower(s) == [i \in DOMAIN s |-> lower_char(s[i])]

\* s[a:b] for 0 <= a, 0 <= b (Python clamps both ends to len(s))
Slice(s, a, b) == SubSeq(s, a + 1, Min(b, Len(s)))

\* s[a:]
SliceFrom(s, a) == SubSeq(s, a + 1, Len(s))

RECURSIVE FirstKept(_, _)
\* the first position from i on that holds no whitespace, Len(s) + 1 if none
FirstKept(s, i) ==
    IF i > Len(s) \/ s[i] \notin Whitespace THEN i ELSE FirstKept(s, i + 1)

RECURSIVE LastKept(_, _)
\* the last position up to i that holds no whitespace, 0 if none
LastKept(s, i) ==
    IF i < 1 \/ s[i] \notin Whitespace THEN i ELSE LastKept(s, i - 1)

\* str.strip(): drops leading and trailing whitespace
strip(s) == SubSeq(s, FirstKept(s, 1), LastKept(s, Len(s)))

RECURSIVE FirstOccurrence(_, _, _)
\* the first position from i on at which sep occurs in s, 0 if none
FirstOccurrence(s, sep, i) ==
    IF i + Len(sep) - 1 > Len(s) THEN 0
    ELSE IF \A j \in DOMAIN sep : s[i + j - 1] = sep[j] THEN i
    ELSE FirstOccurrence(s, sep, i + 1)

RECURSIVE split_from(_, _, _)
\* the pieces of s from position start on
split_from(s, sep, start) ==
    LET i == FirstOccurrence(s, sep, start)
    IN  IF i = 0 THEN <<SubSeq(s, start, Len(s))>>
        ELSE <<SubSeq(s, start, i - 1)>> \o split_from(s, sep, i + Len(sep))

\* str.split(sep) for a non-empty separator: always at least one piece
split(s, sep) == split_from(s, sep, 1)

\* str.splitlines(): no line for the empty text, none after a final newline
splitlines(s) ==
    IF s = <<>> THEN <<>>
    ELSE IF s[Len(s)] = "\n" THEN split(SubSeq(s, 1, Len(s) - 1), <<"\n">>)
    ELSE split(s, <<"\n">>)

RECURSIVE join(_, _)
\* sep.join(parts)
join(sep, parts) ==
    IF parts = <<>> THEN <<>>
    ELSE IF Len(parts) = 1 THEN parts[1]
    ELSE parts[1] \o sep \o join(sep, Tail(parts))

\* the value of a decimal digit
DigitValue(c) == (CHOOSE i \in DOMAIN Digits : Digits[i] = c) - 1

\* the text is a non-empty run of decimal digits: int(text) succeeds
IsInt(s) == s # <<>> /\ \A i \in DOMAIN s : s[i] \in Range(Digits)

RECURSIVE int(_)
\* int(text) of a run of decimal digits
int(s) == IF s = <<>> THEN 0 ELSE 10 * int(SubSeq(s, 1, Len(s) - 1)) + DigitValue(s[Len(s)])

RECURSIVE str(_)
\* str(n) of a natural number
str(n) == IF n < 10 THEN <<Digits[n + 1]>> ELSE str(n \div 10) \o <<Digits[(n % 10) + 1]>>

(***************************************************************************)
(* The column-table parser (TogglCli.count_table, TogglCli.format_line).   *)
(***************************************************************************)
RIGHT_ALIGNED ==
    { <<"s", "t", "a", "r", "t">>, <<"s", "t", "o", "p">>,
      <<"d", "u", "r", "a", "t", "i", "o", "n">> }

RECURSIVE count_table_scan(_, _, _, _)
\* the loop of count_table at 0-based position index of the header
count_table_scan(header, index, current_word, count) ==
    IF index >= Len(header) THEN count
    ELSE
        LET letter == header[index + 1]
            right  == lower(strip(current_word)) \in RIGHT_ALIGNED
            left_boundary ==
                /\ ~right
                /\ current_word # <<>>
                /\ current_word[Len(current_word)] = " "
                /\ letter # " "
                /\ \E i \in DOMAIN current_word : isalpha(current_word[i])
            right_boundary ==
                /\ right
                /\ current_word[Len(current_word)] # " "
                /\ letter = " "
        IN  IF left_boundary \/ right_boundary
            THEN count_table_scan(header, index + 1, <<letter>>, Append(count, index))
            ELSE count_table_scan(header, index + 1, Append(current_word, letter), count)

\* the 0-based offsets at which the columns after the first begin
count_table(header) == count_table_scan(header, 0, <<>>, <<>>)

\* the value None of an optional result
NoLine == [is_none |-> TRUE, data |-> <<>>]

RECURSIVE format_line_scan(_, _, _, _, _)
\* the loop of format_line over the remaining boundaries
format_line_scan(header_size, item, names, prev, item_data) ==
    IF header_size = <<>>
    THEN [is_none |-> FALSE, data |-> Append(item_data, strip(SliceFrom(item, prev)))]
    ELSE
        LET index == Head(header_size)
            d     == strip(Slice(item, prev, index))
        IN  IF d \in names THEN NoLine
            ELSE format_line_scan(Tail(header_size), item, names, index, Append(item_data, d))

\* one data line cut at the boundaries; None when a cut field is a seen name
\* (every caller passes a set of names)
format_line(header_size, item, names) ==
    format_line_scan(header_size, item, names, 0, <<>>)

(***************************************************************************)
(* The external toggl tool.  Its state is the set of time entries and      *)
(* projects it knows and whether it can be run at all; its output is the   *)
(* column-aligned text the adapters parse.                                 *)
(***************************************************************************)
Spaces(n) == [i \in 1..n |-> " "]

\* text padded on the right, respectively on the left, to a column width
LJust(s, w) == s \o Spaces(Max(0, w - Len(s)))

RJust(s, w) == Spaces(Max(0, w - Len(s))) \o s

wa == <<"w", "a">>

rb == <<"r", "b">>

sc == <<"s", "c">>

pa == <<"p", "a">>

pb == <<"p", "b">>

pc == <<"p", "c">>

ca == <<"c", "a">>

wTrue == <<"T", "r", "u", "e">>

wFalse == <<"F", "a", "l", "s", "e">>

\* a time entry of the tool: the columns of `ls` and the day it was tracked
Entry(desc, dur, start, stop, project, id, tags, day) ==
    [description |-> desc, duration |-> dur, start |-> start, stop |-> stop,
     project |-> project, id |-> id, tags |-> tags, day |-> day]

TrackerHeader ==
    Entry(<<"D", "e", "s", "c", "r", "i", "p", "t", "i", "o", "n">>,
          <<"D", "u", "r", "a", "t", "i", "o", "n">>,
          <<"S", "t", "a", "r", "t">>, <<"S", "t", "o", "p">>,
          <<"P", "r", "o", "j", "e", "c", "t">>, <<"I", "D">>,
          <<"T", "a", "g", "s">>, 0)

\* one line of `ls --fields +project,+id,+tags`
TrackerLine(e) ==
    LJust(e.description, 12) \o RJust(e.duration, 8) \o RJust(e.start, 6)
        \o RJust(e.stop, 5) \o <<" ">> \o LJust(e.project, 8) \o LJust(e.id, 3) \o e.tags

\* the entry sets the tool may hold
TrackerSets ==
    << \* two entries on different days
       << Entry(wa, <<"1", "h">>, <<"9">>, <<"1", "0">>, pa, <<"1">>, <<"x", ",", " ", "y">>, 1),
          Entry(rb, <<"2", "h">>, <<"1", "1">>, <<"1", "3">>, pb, <<"2">>, <<"z">>, 2) >>,
       \* no entry at all
       << >>,
       \* a repeated description, and a project named like an earlier entry
       << Entry(sc, <<"3", "h">>, <<"8">>, <<"1", "1">>, pa, <<"3">>, <<>>, 1),
          Entry(sc, <<"1", "h">>, <<"1", "2">>, <<"1", "3">>, pb, <<"4">>, <<"x">>, 2),
          Entry(wa, <<"2", "h">>, <<"1", "4">>, <<"1", "6">>, sc, <<"5">>, <<"y">>, 2),
          Entry(rb, <<"1", "h">>, <<"1", "7">>, <<"1", "8">>, pc, <<"6">>, <<"z">>, 2) >> >>

\* a project of the tool: the columns of `projects ls -f +hex_color,+active`
ToolProject(name, client, active, id, color) ==
    [name |-> name, client |-> client, active |-> active, id |-> id, color |-> color]

ProjectHeader ==
    ToolProject(<<"N", "a", "m", "e">>, <<"C", "l", "i", "e", "n", "t">>,
                <<"A", "c", "t", "i", "v", "e">>, <<"I", "D">>,
                <<"C", "o", "l", "o", "r">>)

ProjectLine(p) ==
    LJust(p.name, 5) \o LJust(p.client, 7) \o LJust(p.active, 7) \o LJust(p.id, 3) \o p.color

\* the project sets the tool may hold
ProjectSets ==
    << << ToolProject(pa, ca, wTrue, <<"1", "1">>, <<"#", "a">>),
          ToolProject(pb, ca, wFalse, <<"1", "2">>, <<"#", "b">>),
          ToolProject(pc, <<>>, wTrue, <<"1", "3">>, <<"#", "c">>) >>,
       << ToolProject(pb, ca, wFalse, <<"1", "2">>, <<"#", "b">>),
          ToolProject(pa, ca, wTrue, <<"1", "1">>, <<"#", "a">>),
          ToolProject(pc, ca, wTrue, <<"1", "3">>, <<"#", "c">>),
          ToolProject(pa, ca, wTrue, <<"1", "4">>, <<"#", "d">>) >>,
       << >> >>

\* the day a --start or --stop value names; "" is the absent value
FilterDays == [d1 |-> 1, d2 |-> 2]

RECURSIVE Lines(_)
\* the text of a table: its lines, each ended by a newline
Lines(lines) ==
    IF lines = <<>> THEN <<>> ELSE Head(lines) \o <<"\n">> \o Lines(Tail(lines))

\* the table `ls` prints for some entries, and `projects ls` for some projects
TrackerTable(entries) ==
    Lines([i \in 1..(Len(entries) + 1) |->
              TrackerLine(IF i = 1 THEN TrackerHeader ELSE entries[i - 1])])

ProjectTable(projects) ==
    Lines([i \in 1..(Len(projects) + 1) |->
              ProjectLine(IF i = 1 THEN ProjectHeader ELSE projects[i - 1])])

\* the entries `ls --start s --stop e` selects
SelectEntries(entries, start_time, end_time) ==
    SelectSeq(entries, LAMBDA e :
        /\ (start_time # "" => e.day >= FilterDays[start_time])
        /\ (end_time # "" => e.day <= FilterDays[end_time]))

\* the value following an option word of a command line, "" when absent
OptionValue(cmd, option) ==
    IF \E i \in 1..(Len(cmd) - 1) : cmd[i] = option
    THEN cmd[(CHOOSE i \in 1..(Len(cmd) - 1) : cmd[i] = option) + 1]
    ELSE ""

StoppedMessage == <<"S", "t", "o", "p", "p", "e", "d", "\n">>

\* one run of the tool: exit status and standard output
ToolRun(t, cmd) ==
    IF ~t.up THEN [exit |-> 1, stdout |-> <<>>]
    ELSE IF Len(cmd) >= 3 /\ cmd[2] = "projects" /\ cmd[3] = "ls"
    THEN [exit |-> 0, stdout |-> ProjectTable(ProjectSets[t.projects])]
    ELSE IF Len(cmd) >= 2 /\ cmd[2] = "ls"
    THEN [exit |-> 0,
          stdout |-> TrackerTable(SelectEntries(TrackerSets[t.trackers],
                                                OptionValue(cmd, "--start"),
                                                OptionValue(cmd, "--stop")))]
    ELSE IF Len(cmd) >= 2 /\ cmd[2] = "stop"
    THEN [exit |-> 0, stdout |-> StoppedMessage]
    ELSE [exit |-> 1, stdout |-> <<>>]

(***************************************************************************)
(* Python values.  A value carries the name of its type; a named tuple     *)
(* carries its fields as a record.  Wall-clock time is a number of seconds.*)
(***************************************************************************)
None == [py |-> "NoneType", v |-> <<>>]

datetime(t) == [py |-> "datetime", v |-> t]

TogglTrackerFields ==
    {"description", "entry_id", "stop", "project", "start", "duration", "tags"}

TogglTrackerRequired == {"description", "entry_id", "stop"}

TProjectFields == {"name", "project_id", "client", "color", "active"}

TProjectRequired == {"name", "project_id", "client", "color"}

TogglTracker(description, entry_id, stop, project, start, duration, tags) ==
    [py |-> "TogglTracker",
     v  |-> [description |-> description, entry_id |-> entry_id, stop |-> stop,
             project |-> project, start |-> start, duration |-> duration,
             tags |-> tags]]

TProject(name, project_id, client, color, active) ==
    [py |-> "TProject",
     v  |-> [name |-> name, project_id |-> project_id, client |-> client,
             color |-> color, active |-> active]]

SecondsPerDay == 86400

\* datetime.isoformat(): the date, a "T", the time of day
isoformat(t) == str(t \div SecondsPerDay) \o <<"T">> \o str(t % SecondsPerDay)

\* datetime.fromisoformat(text) succeeds on a date, a "T" and a time of day
IsIsoFormat(s) ==
    LET parts == split(s, <<"T">>)
    IN  Len(parts) = 2 /\ IsInt(parts[1]) /\ IsInt(parts[2])

fromisoformat(s) ==
    LET parts == split(s, <<"T">>)
    IN  datetime(int(parts[1]) * SecondsPerDay + int(parts[2]))

(***************************************************************************)
(* The cache file of one kind of record and its serialization              *)
(* (CustomSerializer, CustomDeserializer, cache_data, load_data).  A file  *)
(* is absent, holds text that is no JSON document, or holds a JSON list;   *)
(* a JSON string is a "str" item and a JSON object a "dict" item.          *)
(***************************************************************************)
Kinds == {"tracker", "project"}

\* TrackerCli.CACHE_LEN is one day, TogglProjects.CACHE_LEN two weeks
CACHE_LEN(kind) == IF kind = "tracker" THEN SecondsPerDay ELSE 14 * SecondsPerDay

AbsentFile == [st |-> "absent", doc |-> <<>>]

\* text that json.loads rejects, such as a file cut off while being written
GarbageFile == [st |-> "garbage", doc |-> <<>>]

JsonFile(doc) == [st |-> "json", doc |-> doc]

JStr(s) == [jt |-> "str", v |-> s]

JDict(d) == [jt |-> "dict", v |-> d]

\* a mistaken encoder that writes the fields of a record without the tag
\* naming its kind
CustomSerializer_encode_untagged(obj) ==
    [i \in DOMAIN obj |->
        IF obj[i].py \in {"TProject", "TogglTracker"}
        THEN JDict(obj[i].v)
        ELSE JStr(isoformat(obj[i].v))]

\* CustomSerializer.encode of a list, with CustomSerializer.default for the
\* datetime the base encoder cannot write
CustomSerializer_encode(obj) ==
    [i \in DOMAIN obj |->
        IF obj[i].py \in {"TProject", "TogglTracker"}
        THEN JDict(obj[i].v @@ ("data type" :> obj[i].py))
        ELSE JStr(isoformat(obj[i].v))]

\* a dictionary without one key (dict.pop)
WithoutKey(d, key) == [k \in (DOMAIN d) \ {key} |-> d[k]]

\* Type(**item): the keyword arguments fit the fields of the named tuple
FitsFields(item, fields, required) ==
    (DOMAIN item) \subseteq fields /\ required \subseteq (DOMAIN item)

\* Type(**item), an absent optional field taking its default None
\* (TProject.active defaults to True)
NamedTuple(type, item, fields) ==
    [py |-> type,
     v  |-> [k \in fields |->
                IF k \in DOMAIN item THEN item[k]
                ELSE IF k = "active" THEN TRUE ELSE None]]

RECURSIVE CustomDeserializer_scan(_, _)
\* the loop of CustomDeserializer.decode over the items of the parsed list
CustomDeserializer_scan(obj, decoded_obj) ==
    IF obj = <<>> THEN [exc |-> "", data |-> decoded_obj]
    ELSE
        LET item == Head(obj)
        IN  IF item.jt = "dict"
            THEN IF "data type" \in DOMAIN item.v
                 THEN LET dt   == item.v["data type"]
                          rest == WithoutKey(item.v, "data type")
                      IN  IF dt = "TProject"
                          THEN IF FitsFields(rest, TProjectFields, TProjectRequired)
                               THEN CustomDeserializer_scan(Tail(obj),
                                        Append(decoded_obj, NamedTuple(dt, rest, TProjectFields)))
                               ELSE [exc |-> "TypeError", data |-> <<>>]
                          ELSE IF dt = "TogglTracker"
                          THEN IF FitsFields(rest, TogglTrackerFields, TogglTrackerRequired)
                               THEN CustomDeserializer_scan(Tail(obj),
                                        Append(decoded_obj, NamedTuple(dt, rest, TogglTrackerFields)))
                               ELSE [exc |-> "TypeError", data |-> <<>>]
                          ELSE CustomDeserializer_scan(Tail(obj),
                                   Append(decoded_obj, [py |-> "dict", v |-> rest]))
                 ELSE CustomDeserializer_scan(Tail(obj),
                          Append(decoded_obj, [py |-> "dict", v |-> item.v]))
            ELSE IF item.jt = "str"
            THEN IF IsIsoFormat(item.v)
                 THEN CustomDeserializer_scan(Tail(obj), <<fromisoformat(item.v)>> \o decoded_obj)
                 ELSE [exc |-> "ValueError", data |-> <<>>]
            ELSE CustomDeserializer_scan(Tail(obj),
                     Append(decoded_obj, [py |-> item.jt, v |-> item.v]))

\* CustomDeserializer.decode of the JSON list of a file
CustomDeserializer_decode(obj) == CustomDeserializer_scan(obj, <<>>)

\* cache_data: the content of the file after the write at time now
cache_data(data, now_) == JsonFile(CustomSerializer_encode(<<datetime(now_)>> \o data))

\* the result of a call that returns a list, returns None or raises
Returned(data) == [kind |-> "list", data |-> data, exc |-> ""]

ReturnedNone == [kind |-> "none", data |-> <<>>, exc |-> ""]

Raised(exc) == [kind |-> "raise", data |-> <<>>, exc |-> exc]

\* a mistaken staleness test under which an envelope aged exactly CACHE_LEN
\* is still served
is_stale_after(now_, cache_len, date) == now_ - cache_len > date

\* datetime.now() - self.CACHE_LEN >= date
is_stale(now_, cache_len, date) == now_ - cache_len >= date

\* load_data on the file of a kind at time now
load_data(f, kind, now_) ==
    IF f.st = "absent" THEN Raised("FileNotFoundError")
    ELSE IF f.st = "garbage" THEN Raised("JSONDecodeError")
    ELSE
        LET decoded == CustomDeserializer_decode(f.doc)
        IN  IF decoded.exc # "" THEN Raised(decoded.exc)
            ELSE IF decoded.data = <<>> THEN Raised("IndexError")
            ELSE
                LET date == Head(decoded.data)
                    data == Tail(decoded.data)
                IN  IF date.py # "datetime" THEN Raised("TypeError")
                    ELSE IF is_stale(now_, CACHE_LEN(kind), date.v) THEN ReturnedNone
                    ELSE Returned(data)

(***************************************************************************)
(* The state: the wall clock, the external tool, the two cache files, the  *)
(* in-memory lists of the two adapters, and the outcome of the operation   *)
(* that has just run.                                                      *)
(***************************************************************************)
VARIABLES
    now,              \* the wall clock, in seconds
    ticks,            \* how often the clock was advanced
    tool,             \* the external tool: runnable, its entries, its projects
    file,             \* the cache file of each kind
    written,          \* per kind, the last cache_data: when and with which records
    latest_trackers,  \* TrackerCli.latest_trackers
    project_list,     \* TogglProjects.project_list
    ret,              \* the outcome of the operation that has just run
    query,            \* the query text given to the tokenizer
    parsed,           \* the outcome of parse_query
    settings,         \* the preferences: the tool's path exists, hints are shown
    running,          \* the tool has a running time entry
    shown             \* the outcome of the last process_query or match_results

vars ==
    <<now, ticks, tool, file, written, latest_trackers, project_list, ret,
      query, parsed, settings, running, shown>>

\* TogglCli.max_results: TogglExtension._max_results, handed to each adapter
max_results == 10

NotWritten == [valid |-> FALSE, at |-> 0, data |-> <<>>]

\* no operation has run since the environment last changed
Idle ==
    [op |-> "none", kind |-> "", refresh |-> FALSE, times |-> FALSE, active |-> FALSE,
     outcome |-> "none", exc |-> "", value |-> <<>>, msg |-> <<>>, src |-> "none",
     ext |-> 0, failed |-> FALSE, load |-> "skip", age |-> -1,
     rep |-> FALSE, same |-> FALSE, cmd |-> <<>>, project |-> <<>>,
     args |-> <<>>, none |-> FALSE]

NoQuery == [outcome |-> "none", exc |-> "", arguments |-> <<>>]

\* no query has been processed since the environment last changed
NotShown ==
    [op |-> "none", query |-> <<>>, kwargs |-> <<>>, above |-> {},
     outcome |-> "none", exc |-> "", items |-> <<>>, calls |-> <<>>,
     current |-> "unknown", route |-> "none", fallback |-> FALSE,
     augmented |-> FALSE, actions |-> <<>>, max |-> max_results,
     runs |-> <<>>]

\* TogglExtension.__init__: the path of the tool and the hints preference
ExtensionInit ==
    /\ settings = [exists |-> TRUE, hints |-> TRUE]
    /\ running = FALSE
    /\ shown = NotShown

AdapterInit ==
    /\ now = 0
    /\ ticks = 0
    /\ tool = [up |-> TRUE, trackers |-> 1, projects |-> 1]
    /\ file = [k \in Kinds |-> AbsentFile]
    /\ written = [k \in Kinds |-> NotWritten]
    /\ latest_trackers = <<>>
    /\ project_list = <<>>
    /\ ret = Idle

\* TogglCli.base_command: the stripped standard output of the tool; the exit
\* status is not looked at and nothing is raised
base_command(t, toggl_exec_path, cmd) == strip(ToolRun(t, <<toggl_exec_path>> \o cmd).stdout)

\* TogglProjects.base_command: the same under the `projects` supercommand
projects_base_command(t, toggl_exec_path, cmd) ==
    base_command(t, toggl_exec_path, <<"projects">> \o cmd)

ExecPath == "toggl"

(***************************************************************************)
(* TrackerCli.list_trackers                                                *)
(***************************************************************************)
RECURSIVE list_trackers_scan(_, _, _, _, _, _)
\* the loop of list_trackers over the remaining lines of the output; the
\* result is the list built so far and the exception that ended the loop
list_trackers_scan(header_size, run, cnt, checked_names, latest, max) ==
    IF run = <<>> THEN [exc |-> "", list |-> latest]
    ELSE IF cnt = 1
    THEN list_trackers_scan(header_size, Tail(run), cnt + 1, checked_names, latest, max)
    ELSE
        LET item_data == format_line(header_size, Head(run), checked_names)
        IN  IF item_data.is_none
            THEN list_trackers_scan(header_size, Tail(run), cnt, checked_names, latest, max)
            ELSE IF Len(item_data.data) # 7
            THEN [exc |-> "ValueError", list |-> latest]
            ELSE
                LET f == item_data.data
                    tracker == TogglTracker(strip(f[1]), f[6], strip(f[4]), f[5], f[3],
                                            f[2], split(f[7], <<",", " ">>))
                IN  IF cnt + 1 = max
                    THEN [exc |-> "", list |-> Append(latest, tracker)]
                    ELSE list_trackers_scan(header_size, Tail(run), cnt + 1,
                                            checked_names \cup {f[1]},
                                            Append(latest, tracker), max)

\* the command line of the listing
list_trackers_cmd(start_time, end_time) ==
    <<"ls", "--fields", "+project,+id,+tags">>
        \o (IF start_time # "" THEN <<"--start", start_time>> ELSE <<>>)
        \o (IF end_time # "" THEN <<"--stop", end_time>> ELSE <<>>)

\* list_trackers from the run of the tool to the end of the loop: the
\* exception raised, whether latest_trackers was assigned, and the list built
list_trackers_run(t, start_time, end_time) ==
    LET run == splitlines(base_command(t, ExecPath, list_trackers_cmd(start_time, end_time)))
    IN  IF run = <<>>
        THEN [exc |-> "IndexError", assigned |-> FALSE, list |-> <<>>]
        ELSE LET scan == list_trackers_scan(count_table(run[1]), run, 1, {}, <<>>, max_results)
             IN  [exc |-> scan.exc, assigned |-> TRUE, list |-> scan.list]

\* the time filters a listing is called with; "" is the absent filter
TimeFilters == {<<"", "">>, <<"d2", "">>}

\* list_trackers_run, evaluated once for each tool state and filter
list_trackers_runs ==
    [up \in BOOLEAN, i \in DOMAIN TrackerSets, f \in TimeFilters |->
        list_trackers_run([up |-> up, trackers |-> i, projects |-> 1], f[1], f[2])]

\* list_trackers from the point where the tool is run, with the value refresh
\* has there: the outcome and the new latest_trackers and cache file
list_trackers_fetch(refresh, start_time, end_time, loaded, age) ==
    LET run == list_trackers_runs[tool.up, tool.trackers, <<start_time, end_time>>]
        out == [Idle EXCEPT !.op = "list_trackers", !.kind = "tracker", !.ext = 1,
                            !.failed = ~tool.up, !.load = loaded, !.age = age]
    IN  IF run.exc # ""
        THEN [ret |-> [out EXCEPT !.outcome = "raise", !.exc = run.exc],
              latest |-> IF run.assigned THEN run.list ELSE latest_trackers,
              file |-> file["tracker"], wrote |-> FALSE]
        ELSE [ret |-> [out EXCEPT !.outcome = "ok", !.value = run.list, !.src = "tool"],
              latest |-> run.list,
              file |-> IF refresh THEN cache_data(run.list, now) ELSE file["tracker"],
              wrote |-> refresh]

\* a mistaken condition that forgets the time filters
trackers_may_use_cache_unfiltered(refresh, times) == ~refresh

\* the condition of both early returns of list_trackers: the caches may be
\* consulted
trackers_may_use_cache(refresh, times) == ~refresh /\ ~times

\* the whole of list_trackers(refresh=refresh, start=start_time, stop=end_time)
list_trackers(refresh, start_time, end_time) ==
    LET times == start_time # "" \/ end_time # ""
        unchanged(r) == [ret |-> r, latest |-> latest_trackers,
                         file |-> file["tracker"], wrote |-> FALSE]
        hit == [Idle EXCEPT !.op = "list_trackers", !.kind = "tracker", !.outcome = "ok"]
    IN  IF trackers_may_use_cache(refresh, times) /\ latest_trackers # <<>>
        THEN unchanged([hit EXCEPT !.value = latest_trackers, !.src = "memory"])
        ELSE IF trackers_may_use_cache(refresh, times) /\ file["tracker"].st # "absent"
        THEN LET data == load_data(file["tracker"], "tracker", now)
                 age  == IF written["tracker"].valid THEN now - written["tracker"].at ELSE -1
             IN  IF data.kind = "raise"
                 THEN unchanged([hit EXCEPT !.outcome = "raise", !.exc = data.exc,
                                            !.load = "raise", !.age = age])
                 ELSE IF data.kind = "list"
                 THEN unchanged([hit EXCEPT !.value = data.data, !.src = "file",
                                            !.load = "hit", !.age = age])
                 ELSE list_trackers_fetch(TRUE, start_time, end_time, "stale", age)
        ELSE list_trackers_fetch(refresh, start_time, end_time, "skip", -1)

ListTrackers(refresh, start_time, end_time) ==
    LET r == list_trackers(refresh, start_time, end_time)
        plain == ~refresh /\ start_time = "" /\ end_time = ""
        again == /\ plain
                 /\ ret.op = "list_trackers" /\ ~ret.refresh /\ ~ret.times
                 /\ ret.outcome = "ok"
    IN  /\ ret' = [r.ret EXCEPT !.refresh = refresh,
                                !.times = (start_time # "" \/ end_time # ""),
                                !.rep = again,
                                !.same = (again /\ r.ret.outcome = "ok"
                                          /\ r.ret.value = ret.value)]
        /\ latest_trackers' = r.latest
        /\ file' = [file EXCEPT !["tracker"] = r.file]
        /\ written' = IF r.wrote
                      THEN [written EXCEPT !["tracker"] =
                               [valid |-> TRUE, at |-> now, data |-> r.ret.value]]
                      ELSE written
        /\ UNCHANGED <<settings, running, shown, now, ticks, tool, project_list, query, parsed>>

\* TrackerCli.stop_tracker: the output of `stop`; base_command raises
\* nothing, so the fallback message is never chosen
StopTracker ==
    /\ ret' = [Idle EXCEPT !.op = "stop_tracker", !.kind = "tracker",
                           !.outcome = "ok", !.ext = 1,
                           !.failed = ~tool.up,
                           !.msg = base_command(tool, ExecPath, <<"stop">>)]
    /\ UNCHANGED <<settings, running, shown, now, ticks, tool, file, written, latest_trackers,
                   project_list, query, parsed>>

\* a TrackerCli is constructed (TogglViewer and TogglManager each make one)
NewTrackerCli ==
    /\ latest_trackers # <<>>
    /\ latest_trackers' = <<>>
    /\ ret' = Idle
    /\ UNCHANGED <<settings, running, shown, now, ticks, tool, file, written, project_list,
                   query, parsed>>

(***************************************************************************)
(* The environment: time passes, the tool changes, a cache file is lost or *)
(* damaged.                                                                *)
(***************************************************************************)
\* the clock advances by a second or by one second less than the cache length
Tick(kind) ==
    /\ ticks < MaxTicks
    /\ \E d \in {1, CACHE_LEN(kind) - 1} : now' = now + d
    /\ ticks' = ticks + 1
    /\ ret' = Idle
    /\ UNCHANGED <<settings, running, shown, tool, file, written, latest_trackers, project_list,
                   query, parsed>>

\* the tool stops or starts working
SetToolUp ==
    /\ tool' = [tool EXCEPT !.up = ~tool.up]
    /\ ret' = Idle
    /\ shown' = NotShown
    /\ UNCHANGED <<settings, running, now, ticks, file, written, latest_trackers,
                   project_list, query, parsed>>

\* the entries of the tool change
SetToolTrackers ==
    /\ \E i \in DOMAIN TrackerSets : i # tool.trackers /\ tool' = [tool EXCEPT !.trackers = i]
    /\ ret' = Idle
    /\ shown' = NotShown
    /\ UNCHANGED <<settings, running, now, ticks, file, written, latest_trackers,
                   project_list, query, parsed>>

\* the cache file of a kind is deleted, cut off, or replaced by an empty list
DamageFile(kind) ==
    /\ \E f \in {AbsentFile, GarbageFile, JsonFile(<<>>)} :
          /\ f # file[kind]
          /\ file' = [file EXCEPT ![kind] = f]
    /\ written' = [written EXCEPT ![kind] = NotWritten]
    /\ ret' = Idle
    /\ UNCHANGED <<settings, running, shown, now, ticks, tool, latest_trackers, project_list,
                   query, parsed>>

Init == AdapterInit /\ ExtensionInit /\ query = <<>> /\ parsed = NoQuery

Next ==
    \/ \E refresh \in BOOLEAN, t \in TimeFilters : ListTrackers(refresh, t[1], t[2])
    \/ StopTracker
    \/ NewTrackerCli
    \/ Tick("tracker")
    \/ SetToolUp
    \/ SetToolTrackers
    \/ DamageFile("tracker")

\* the tracker adapter and its cache
Spec == Init /\ [][Next]_vars

(***************************************************************************)
(* TogglProjects.list_projects                                             *)
(***************************************************************************)
RECURSIVE list_projects_scan(_, _, _, _, _, _)
\* the loop of list_projects over the remaining lines of the output
list_projects_scan(header_size, run, cnt, checked_names, list, active) ==
    IF run = <<>> THEN [exc |-> "", list |-> list]
    ELSE IF cnt = 1
    THEN list_projects_scan(header_size, Tail(run), cnt + 1, checked_names, list, active)
    ELSE
        LET item_data == format_line(header_size, Head(run), checked_names)
        IN  IF item_data.is_none
            THEN list_projects_scan(header_size, Tail(run), cnt, checked_names, list, active)
            ELSE IF Len(item_data.data) # 5
            THEN [exc |-> "ValueError", list |-> list]
            ELSE
                LET f == item_data.data
                    active_item == f[3] = wTrue
                IN  IF ~active_item /\ active
                    THEN list_projects_scan(header_size, Tail(run), cnt, checked_names,
                                            list, active)
                    ELSE IF ~IsInt(f[4])
                    THEN [exc |-> "ValueError", list |-> list]
                    ELSE list_projects_scan(header_size, Tail(run), cnt + 1,
                                            checked_names \cup {f[1]},
                                            Append(list, TProject(f[1], int(f[4]), f[2],
                                                                  f[5], active_item)),
                                            active)

list_projects_cmd == <<"ls", "-f", "+hex_color,+active">>

\* a listing whose loop counts from 1 as the loop of list_trackers does, so
\* that the header line is skipped and never parsed as a record
list_projects_run_skipping_header(t, active) ==
    LET run == splitlines(projects_base_command(t, ExecPath, list_projects_cmd))
    IN  IF run = <<>>
        THEN [exc |-> "IndexError", list |-> <<>>]
        ELSE list_projects_scan(count_table(run[1]), run, 1, {}, <<>>, active)

\* list_projects from the run of the tool to the end of the loop; project_list
\* was emptied before the run
list_projects_run(t, active) ==
    LET run == splitlines(projects_base_command(t, ExecPath, list_projects_cmd))
    IN  IF run = <<>>
        THEN [exc |-> "IndexError", list |-> <<>>]
        ELSE list_projects_scan(count_table(run[1]), run, 0, {}, <<>>, active)

\* list_projects_run, evaluated once for each tool state and value of active
list_projects_runs ==
    [up \in BOOLEAN, i \in DOMAIN ProjectSets, active \in BOOLEAN |->
        list_projects_run([up |-> up, trackers |-> 1, projects |-> i], active)]

\* a mistaken early return that stores what it returns
list_projects_return_storing(r) ==
    [ret |-> r, list |-> project_list, file |-> cache_data(r.value, now), wrote |-> TRUE]

\* an early return of list_projects: nothing but the result is produced
list_projects_return(r) ==
    [ret |-> r, list |-> project_list, file |-> file["project"], wrote |-> FALSE]

\* the whole of list_projects(active=active, refresh=refresh)
list_projects(active, refresh) ==
    LET unchanged(r) == list_projects_return(r)
        hit  == [Idle EXCEPT !.op = "list_projects", !.kind = "project", !.outcome = "ok"]
        age  == IF written["project"].valid THEN now - written["project"].at ELSE -1
        call == ~refresh /\ project_list = <<>> /\ file["project"].st # "absent"
        data == load_data(file["project"], "project", now)
    IN  IF ~refresh /\ project_list # <<>>
        THEN unchanged([hit EXCEPT !.value = project_list, !.src = "memory"])
        ELSE IF call /\ data.kind = "raise"
        THEN unchanged([hit EXCEPT !.outcome = "raise", !.exc = data.exc,
                                   !.load = "raise", !.age = age])
        ELSE IF call /\ data.kind = "list"
        THEN unchanged([hit EXCEPT !.value = data.data, !.src = "file",
                                   !.load = "hit", !.age = age])
        ELSE
            LET run == list_projects_runs[tool.up, tool.projects, active]
                out == [Idle EXCEPT !.op = "list_projects", !.kind = "project", !.ext = 1,
                                    !.failed = ~tool.up,
                                    !.load = IF call THEN "stale" ELSE "skip",
                                    !.age = IF call THEN age ELSE -1]
            IN  IF run.exc # ""
                THEN [ret |-> [out EXCEPT !.outcome = "raise", !.exc = run.exc],
                      list |-> run.list, file |-> file["project"], wrote |-> FALSE]
                ELSE [ret |-> [out EXCEPT !.outcome = "ok", !.value = run.list,
                                          !.src = "tool"],
                      list |-> run.list, file |-> cache_data(run.list, now),
                      wrote |-> TRUE]

ListProjects(active, refresh) ==
    LET r == list_projects(active, refresh)
    IN  /\ ret' = [r.ret EXCEPT !.refresh = refresh, !.active = active]
        /\ project_list' = r.list
        /\ file' = [file EXCEPT !["project"] = r.file]
        /\ written' = IF r.wrote
                      THEN [written EXCEPT !["project"] =
                               [valid |-> TRUE, at |-> now, data |-> r.ret.value]]
                      ELSE written
        /\ UNCHANGED <<settings, running, shown, now, ticks, tool, latest_trackers, query, parsed>>

\* a TogglProjects is constructed (TogglManager makes one)
NewTogglProjects ==
    /\ project_list # <<>>
    /\ project_list' = <<>>
    /\ ret' = Idle
    /\ UNCHANGED <<settings, running, shown, now, ticks, tool, file, written, latest_trackers, query, parsed>>

\* the projects of the tool change
SetToolProjects ==
    /\ \E i \in DOMAIN ProjectSets : i # tool.projects /\ tool' = [tool EXCEPT !.projects = i]
    /\ ret' = Idle
    /\ shown' = NotShown
    /\ UNCHANGED <<settings, running, now, ticks, file, written, latest_trackers, project_list,
                   query, parsed>>

NextProjects ==
    \/ \E active \in BOOLEAN, refresh \in BOOLEAN : ListProjects(active, refresh)
    \/ NewTogglProjects
    \/ Tick("project")
    \/ SetToolUp
    \/ SetToolProjects
    \/ DamageFile("project")

\* the project adapter and its cache
SpecProjects == Init /\ [][NextProjects]_vars

(***************************************************************************)
(* The record cache on its own: records are stored, time passes, and the   *)
(* cache is loaded.                                                        *)
(***************************************************************************)
\* the record lists the adapters hand to cache_data
CacheInputs(kind) ==
    IF kind = "tracker"
    THEN {list_trackers_runs[x].list : x \in DOMAIN list_trackers_runs}
    ELSE {list_projects_runs[x].list : x \in DOMAIN list_projects_runs}

CacheData(kind, data) ==
    /\ file' = [file EXCEPT ![kind] = cache_data(data, now)]
    /\ written' = [written EXCEPT ![kind] = [valid |-> TRUE, at |-> now, data |-> data]]
    /\ ret' = [Idle EXCEPT !.op = "cache_data", !.kind = kind, !.outcome = "ok"]
    /\ UNCHANGED <<settings, running, shown, now, ticks, tool, latest_trackers, project_list, query, parsed>>

LoadData(kind) ==
    LET data == load_data(file[kind], kind, now)
    IN  /\ ret' = [Idle EXCEPT !.op = "load_data", !.kind = kind,
                               !.outcome = IF data.kind = "raise" THEN "raise" ELSE "ok",
                               !.exc = data.exc,
                               !.value = data.data,
                               !.src = IF data.kind = "list" THEN "file" ELSE "none",
                               !.load = IF data.kind = "list" THEN "hit"
                                        ELSE IF data.kind = "none" THEN "stale"
                                        ELSE "raise",
                               !.age = IF written[kind].valid
                                       THEN now - written[kind].at ELSE -1]
        /\ UNCHANGED <<settings, running, shown, now, ticks, tool, file, written, latest_trackers, project_list,
                       query, parsed>>

NextCache ==
    \/ \E kind \in Kinds : \E data \in CacheInputs(kind) : CacheData(kind, data)
    \/ \E kind \in Kinds : LoadData(kind)
    \/ \E kind \in Kinds : Tick(kind)
    \/ \E kind \in Kinds : DamageFile(kind)

\* the record cache of both kinds
SpecCache == Init /\ [][NextCache]_vars

(***************************************************************************)
(* The query tokenizer (KeywordQueryEventListener.parse_query, on_event).  *)
(* An argument value carries its type: "str", "int", "list" or "bool".     *)
(***************************************************************************)
StrArg(x) == [t |-> "str", v |-> x]

\* arguments[key] = value
SetItem(arguments, key, value) == (key :> value) @@ arguments

\* the class [\w \-] of the description pattern
InDescClass(c) == isword(c) \/ c = " " \/ c = "-"

RECURSIVE ClassRunEnd(_, _)
\* the first position from i on that is not in the class, Len(s) + 1 if none
ClassRunEnd(s, i) ==
    IF i > Len(s) \/ ~InDescClass(s[i]) THEN i ELSE ClassRunEnd(s, i + 1)

\* the 1-based positions at which (?<=")[\w \-]+(?=") matches: after a quote,
\* a non-empty run of the class that a quote follows (a shorter run is
\* followed by a character of the class, never by a quote)
DescMatches(s) ==
    {i \in 2..Len(s) :
        /\ s[i - 1] = "\""
        /\ InDescClass(s[i])
        /\ ClassRunEnd(s, i) <= Len(s)
        /\ s[ClassRunEnd(s, i)] = "\""}

\* re.search(desc_patt, query): the leftmost match
desc_search(s) ==
    LET m == DescMatches(s)
    IN  IF m = {} THEN [found |-> FALSE, desc |-> <<>>]
        ELSE LET i == CHOOSE x \in m : \A y \in m : x <= y
             IN  [found |-> TRUE, desc |-> SubSeq(s, i, ClassRunEnd(s, i) - 1)]

\* a tokenizer that never coerces the project reference
IsIntLiteral_never(s) == FALSE

\* int(item) succeeds: an optional sign and decimal digits
IsIntLiteral(s) ==
    IF s # <<>> /\ s[1] \in {"+", "-"} THEN IsInt(Tail(s)) ELSE IsInt(s)

int_literal(s) ==
    IF s[1] = "-" THEN 0 - int(Tail(s))
    ELSE IF s[1] = "+" THEN int(Tail(s))
    ELSE int(s)

\* query[i + 1] in {"AM", "PM"}: query is the text of the query, so the
\* element is one character of it
IsAmPm(c) == <<c>> \in {<<"A", "M">>, <<"P", "M">>}

\* the start or stop value of the token at 0-based position i of args[1:]
time_argument(query_, i, item) ==
    IF i + 1 < Len(query_) /\ IsAmPm(query_[i + 2])
    THEN SliceFrom(item, 1) \o <<" ">> \o <<query_[i + 2]>>
    ELSE SliceFrom(item, 1)

RECURSIVE parse_query_scan(_, _, _, _)
\* the loop of parse_query over args[1:] from 0-based position i on
parse_query_scan(query_, rest, i, arguments) ==
    IF i >= Len(rest) THEN [outcome |-> "ok", exc |-> "", arguments |-> arguments]
    ELSE
        LET item == rest[i + 1]
        IN  IF item = <<>>
            THEN [outcome |-> "raise", exc |-> "IndexError", arguments |-> arguments]
            ELSE IF item[1] = "#"
            THEN parse_query_scan(query_, rest, i + 1,
                     SetItem(arguments, "tags",
                             [t |-> "list", v |-> split(SliceFrom(item, 1), <<",">>)]))
            ELSE IF item[1] = "@"
            THEN parse_query_scan(query_, rest, i + 1,
                     SetItem(arguments, "project",
                             IF IsIntLiteral(SliceFrom(item, 1))
                             THEN [t |-> "int", v |-> int_literal(SliceFrom(item, 1))]
                             ELSE StrArg(SliceFrom(item, 1))))
            ELSE IF item[1] = ">" /\ item[Len(item)] = "<"
            THEN parse_query_scan(query_, rest, i + 1,
                     SetItem(arguments, "duration", StrArg(Slice(item, 1, Len(item) - 1))))
            ELSE IF item[1] = ">"
            THEN parse_query_scan(query_, rest, i + 1,
                     SetItem(arguments, "start", StrArg(time_argument(query_, i, item))))
            ELSE IF item[1] = "<"
            THEN parse_query_scan(query_, rest, i + 1,
                     SetItem(arguments, "stop", StrArg(time_argument(query_, i, item))))
            ELSE IF item = <<"r", "e", "f", "r", "e", "s", "h">>
            THEN parse_query_scan(query_, rest, i + 1,
                     SetItem(arguments, "refresh", [t |-> "bool", v |-> TRUE]))
            ELSE parse_query_scan(query_, rest, i + 1, arguments)

\* the empty dictionary
EmptyDict == <<>>

\* parse_query(query, args): the arguments, or the exception raised
parse_query(query_, args) ==
    LET desc == desc_search(query_)
        arguments == IF desc.found
                     THEN SetItem(EmptyDict, "description", StrArg(desc.desc))
                     ELSE EmptyDict
    IN  parse_query_scan(query_, Tail(args), 0, arguments)

\* on_event up to the call of process_query: the arguments of the query
on_event_arguments(args) ==
    IF args # <<>>
    THEN parse_query(args, split(args, <<" ">>))
    ELSE [outcome |-> "ok", exc |-> "", arguments |-> EmptyDict]

\* the longest query text that is enumerated character by character
MaxQueryLen == 3

QueryChars == {"s", " ", "#", "@", ">", "<", "1", "a", ",", "\"", "A", "M"}

\* longer queries, entered at once:
\*   add "wa b" @12 #a,b >9< refresh
\*   add >9:00 AM <5 PM
\*   start "a #b" @x  <1
\*   start "a #b" @x
ExampleQueries ==
    { <<"a", "d", "d", " ", "\"", "w", "a", " ", "b", "\"", " ", "@",
        "1", "2", " ", "#", "a", ",", "b", " ", ">", "9", "<", " ",
        "r", "e", "f", "r", "e", "s", "h">>,
      <<"a", "d", "d", " ", ">", "9", ":", "0", "0", " ", "A", "M",
        " ", "<", "5", " ", "P", "M">>,
      <<"s", "t", "a", "r", "t", " ", "\"", "a", " ", "#", "b", "\"",
        " ", "@", "x", " ", " ", "<", "1">>,
      <<"s", "t", "a", "r", "t", " ", "\"", "a", " ", "#", "b", "\"",
        " ", "@", "x">> }

\* the parts a query is put together from: for each field the text typed and
\* the value it stands for ("" in txt: the field is left out)
FieldParts ==
    [ description : { [txt |-> <<"\"", "w", "a", " ", "b", "\"">>, val |-> StrArg(<<"w", "a", " ", "b">>)],
                      [txt |-> <<"\"", "w", "a", "\"">>, val |-> StrArg(<<"w", "a">>)],
                      [txt |-> <<"\"", "w", "-", "a", " ", "b", " ", "1", "\"">>, val |-> StrArg(<<"w", "-", "a", " ", "b", " ", "1">>)] },
      project : { [txt |-> <<>>, val |-> None],
                  [txt |-> <<"@", "1", "2">>, val |-> [t |-> "int", v |-> 12]],
                  [txt |-> <<"@", "x", "1">>, val |-> StrArg(<<"x", "1">>)] },
      tags : { [txt |-> <<>>, val |-> None],
               [txt |-> <<"#", "a", ",", "b">>, val |-> [t |-> "list", v |-> <<<<"a">>, <<"b">>>>]],
               [txt |-> <<"#", "a">>, val |-> [t |-> "list", v |-> <<<<"a">>>>]] },
      duration : { [txt |-> <<>>, val |-> None],
                   [txt |-> <<">", "9", ":", "0", "0", "<">>, val |-> StrArg(<<"9", ":", "0", "0">>)] },
      refresh : { [txt |-> <<>>, val |-> None],
                  [txt |-> <<"r", "e", "f", "r", "e", "s", "h">>, val |-> [t |-> "bool", v |-> TRUE]] },
      reversed : BOOLEAN ]

\* the tokens after the quoted phrase, in the order typed
FieldTokens(c) ==
    LET toks == SelectSeq(<<c.project.txt, c.tags.txt, c.duration.txt, c.refresh.txt>>,
                          LAMBDA x : x # <<>>)
    IN  IF c.reversed THEN [i \in DOMAIN toks |-> toks[Len(toks) + 1 - i]] ELSE toks

\* the query text: the quoted phrase, then the tokens, one space between
FieldQuery(c) == join(<<" ">>, <<c.description.txt>> \o FieldTokens(c))

FieldQueries == {FieldQuery(c) : c \in FieldParts}

\* the user types one more character
TypeChar ==
    /\ Len(query) < MaxQueryLen
    /\ \E c \in QueryChars : query' = Append(query, c)
    /\ parsed' = NoQuery
    /\ UNCHANGED <<settings, running, shown, now, ticks, tool, file, written, latest_trackers, project_list, ret>>

\* the user enters a whole query at once, or clears the query
EnterQuery ==
    /\ \E q \in ExampleQueries \cup FieldQueries \cup {<<>>} : q # query /\ query' = q
    /\ parsed' = NoQuery
    /\ UNCHANGED <<settings, running, shown, now, ticks, tool, file, written, latest_trackers, project_list, ret>>

\* the launcher delivers the query to on_event
OnEvent ==
    /\ parsed.outcome = "none"
    /\ parsed' = on_event_arguments(query)
    /\ UNCHANGED <<settings, running, shown, now, ticks, tool, file, written, latest_trackers, project_list,
                   ret, query>>

NextParse == TypeChar \/ EnterQuery \/ OnEvent

\* the tokenizer on every query
SpecParse == Init /\ [][NextParse]_vars

(***************************************************************************)
(* The running time entry (TrackerCli.check_running).                      *)
(***************************************************************************)
\* what `now` prints when no entry is running
NoEntryMessage ==
    <<"T", "h", "e", "r", "e", " ", "i", "s", " ", "n", "o", " ", "t", "i", "m", "e", " ", "e", "n", "t", "r", "y", " ", "r", "u", "n", "n", "i", "n", "g", "!">>

\* what `now` prints for the running entry: description and id, then one
\* line for each property
RunningOutput ==
    <<"w", "a", " ", "#", "1", "\n", "B", "i", "l", "l", "a", "b", "l", "e", ":", " ", "F", "a", "l", "s", "e", "\n", "D", "u", "r", "a", "t", "i", "o", "n", ":", " ", "1", "h", "\n", "P", "r", "o", "j", "e", "c", "t", ":", " ", "p", "a", "\n", "S", "t", "a", "r", "t", ":", " ", "9", "\n", "S", "t", "o", "p", ":", " ", "-", "\n", "T", "a", "g", "s", ":", " ", "x", ",", "y", "\n">>

\* the run of `now`: nothing is printed when the executable is missing or
\* fails
NowRun(t, exists, running_) ==
    IF ~exists \/ ~t.up THEN [exit |-> 1, stdout |-> <<>>]
    ELSE IF running_ THEN [exit |-> 0, stdout |-> RunningOutput]
    ELSE [exit |-> 0, stdout |-> NoEntryMessage \o <<"\n">>]

\* text.split(sep, maxsplit=1)
split_once(s, sep) ==
    LET i == FirstOccurrence(s, sep, 1)
    IN  IF i = 0 THEN <<s>>
        ELSE <<SubSeq(s, 1, i - 1), SubSeq(s, i + Len(sep), Len(s))>>

\* TrackerCli.check_running on the output of `now`
check_running(t, exists, running_) ==
    LET run   == strip(NowRun(t, exists, running_).stdout)
        lines == splitlines(run)
        value(i) == split_once(lines[i + 1], <<":", " ">>)
    IN  IF run = NoEntryMessage THEN [exc |-> "", tracker |-> None]
        ELSE IF lines = <<>> THEN [exc |-> "IndexError", tracker |-> None]
        ELSE IF Len(split(lines[1], <<"#">>)) # 2
        THEN [exc |-> "ValueError", tracker |-> None]
        ELSE IF Len(lines) < 7 THEN [exc |-> "IndexError", tracker |-> None]
        ELSE IF \E i \in {2, 3, 4, 6} : Len(value(i)) # 2
        THEN [exc |-> "ValueError", tracker |-> None]
        ELSE [exc |-> "",
              tracker |-> TogglTracker(split(lines[1], <<"#">>)[1],
                                       split(lines[1], <<"#">>)[2],
                                       <<"r", "u", "n", "n", "i", "n", "g">>,
                                       value(3)[2], value(4)[2], value(2)[2],
                                       split(value(6)[2], <<",">>))]

\* check_running, evaluated once for each state of the tool
check_running_runs ==
    [up \in BOOLEAN, exists \in BOOLEAN, running_ \in BOOLEAN |->
        check_running([up |-> up, trackers |-> 1, projects |-> 1], exists, running_)]

(***************************************************************************)
(* The result entries and the manager that lists trackers and projects.    *)
(***************************************************************************)
\* QueryParameters: the name of an entry and the text it was made with
QueryParameters(name, description) == [name |-> name, description |-> description]

\* TogglManager.generate_hint: one entry for each message
generate_hint(messages) ==
    [i \in DOMAIN messages |-> QueryParameters("Hint", messages[i])]

\* TogglManager.create_list_actions for trackers: one entry for each entry
\* of the tool
create_list_actions(t) ==
    [i \in DOMAIN TrackerSets[t.trackers] |->
        QueryParameters("Tracker", TrackerSets[t.trackers][i].description)]

\* TogglManager.list_projects: one entry for each project, in the order of
\* the project list
manager_list_projects(t) ==
    [i \in DOMAIN ProjectSets[t.projects] |->
        QueryParameters("Project", ProjectSets[t.projects][i].name)]

(***************************************************************************)
(* The handlers of the commands (TogglViewer).                             *)
(***************************************************************************)
\* a call that returned a list, and a call that raised
Result(list) == [exc |-> "", list |-> list]

Failure(exc) == [exc |-> exc, list |-> <<>>]

\* TogglViewer.__init__: the viewer of one query; check_running runs the
\* command `now` and may raise
TogglViewer(t, s, running_) ==
    LET made == check_running_runs[t.up, s.exists, running_]
    IN  [exc |-> made.exc,
         runs |-> <<<<"now">>>>,
         viewer |-> [current_tracker |-> made.tracker, hints |-> s.hints, tool |-> t]]

\* the methods of TogglViewer
ViewerMethods ==
    {"pre_check_cli", "default_options", "continue_tracker", "start_tracker",
     "add_tracker", "check_current_tracker", "edit_tracker", "create_tracker_subinfo",
     "stop_tracker", "remove_tracker", "total_trackers", "list_trackers",
     "get_projects", "generate_basic_hints"}

\* TogglViewer.pre_check_cli when the path does not exist
pre_check_cli_warning ==
    generate_hint(<< <<"TogglCli is not properly configured.">>,
                     <<"Check your Toggl exectutable path in the config.">> >>)

\* a dictionary value that cannot be hashed: a list
unhashable(kwargs) == \E k \in DOMAIN kwargs : kwargs[k].t = "list"

hint_messages ==
    << <<"Set a project with the @ symbol">>,
       <<"Add tags with the # symbol.">>,
       <<"Set the start and end time with > & < respectively and the duration with both.">>,
       <<"If using spaces in your trackers or projects use quotation marks.">>,
       <<"Time formatting expects default TogglCli formatting.">> >>

\* TogglViewer.generate_basic_hints behind functools.cache: the parameters
\* are keyword-only, the key of the call is hashed, and default_action is
\* called, which an action instance does not allow
generate_basic_hints(v, args, kwargs, max_values, action_is_class) ==
    IF args # <<>> \/ unhashable(kwargs) THEN Failure("TypeError")
    ELSE IF ~v.hints THEN Result(<<>>)
    ELSE IF ~action_is_class THEN Failure("TypeError")
    ELSE Result(generate_hint(SubSeq(hint_messages, 1, Min(max_values, Len(hint_messages)))))

\* TogglViewer.create_tracker_subinfo
create_tracker_subinfo(track) ==
    <<track.v.start, track.v.project>>
        \o (IF track.v.tags # <<>> THEN <<join(<<",", " ">>, track.v.tags)>> ELSE <<>>)

\* TogglViewer.check_current_tracker when no entry is running
no_active_tracker == generate_hint(<< <<"No active tracker is running.">> >>)

start_tracker(v, args, kwargs) ==
    Result(<<QueryParameters("Start", <<>>)>> \o create_list_actions(v.tool))

add_tracker(v, args, kwargs) ==
    Result(<<QueryParameters("Add", IF args # <<>> THEN <<args[1]>> ELSE <<>>)>>
               \o generate_basic_hints(v, <<>>, <<>>, 3, TRUE).list)

continue_tracker(v, args, kwargs) ==
    Result(<<QueryParameters("Continue", <<>>)>> \o create_list_actions(v.tool))

edit_tracker(v, args, kwargs) ==
    IF v.current_tracker.py # "TogglTracker" THEN Result(no_active_tracker)
    ELSE Result(<<QueryParameters("Edit", v.current_tracker.v.description)>>
                    \o generate_hint(create_tracker_subinfo(v.current_tracker))
                    \o generate_basic_hints(v, <<>>, <<>>, 3, TRUE).list)

viewer_stop_tracker(v, args, kwargs) ==
    IF v.current_tracker.py # "TogglTracker" THEN Result(no_active_tracker)
    ELSE Result(<<QueryParameters("Stop", v.current_tracker.v.description)>>
                    \o generate_hint(create_tracker_subinfo(v.current_tracker)))

remove_tracker(v, args, kwargs) ==
    Result(<<QueryParameters("Delete", <<>>)>> \o create_list_actions(v.tool))

\* TogglViewer.total_trackers takes no argument besides self
total_trackers(v, args, kwargs) ==
    IF args # <<>> \/ DOMAIN kwargs # {} THEN Failure("TypeError")
    ELSE Result(<<QueryParameters("Generate Report", <<>>)>>)

viewer_list_trackers(v, args, kwargs) == Result(<<QueryParameters("List", <<>>)>>)

get_projects(v, args, kwargs) == Result(<<QueryParameters("Projects", <<>>)>>)

\* the options offered while no entry is running, whatever the viewer read
default_options_idle(v, args) ==
    Result(<<QueryParameters("Continue", <<>>), QueryParameters("Start", <<>>),
             QueryParameters("Add", <<>>), QueryParameters("Delete", <<>>),
             QueryParameters("Generate Report", <<>>),
             QueryParameters("List", <<>>), QueryParameters("Projects", <<>>)>>)

\* TogglViewer.default_options; the icon of an entry (find_color_svg) is no
\* part of the entries kept here
default_options(v, args) ==
    LET basic_tasks ==
            <<QueryParameters("Start", <<>>), QueryParameters("Add", <<>>),
              QueryParameters("Delete", <<>>),
              total_trackers(v, <<>>, <<>>).list[1],
              viewer_list_trackers(v, args, <<>>).list[1],
              get_projects(v, args, <<>>).list[1]>>
    IN  IF v.current_tracker = None
        THEN Result(<<QueryParameters("Continue", <<>>)>> \o basic_tasks)
        ELSE IF v.current_tracker.v.project = <<>> THEN Failure("IndexError")
        ELSE Result(<<QueryParameters("Currently Running",
                                      v.current_tracker.v.description),
                      viewer_stop_tracker(v, <<>>, <<>>).list[1]>> \o basic_tasks)

\* the call fn(*args, **kwargs) of a handler of the table
call_handler(v, fn, args, kwargs) ==
    CASE fn = "start_tracker" -> start_tracker(v, args, kwargs)
      [] fn = "add_tracker" -> add_tracker(v, args, kwargs)
      [] fn = "continue_tracker" -> continue_tracker(v, args, kwargs)
      [] fn = "stop_tracker" -> viewer_stop_tracker(v, args, kwargs)
      [] fn = "edit_tracker" -> edit_tracker(v, args, kwargs)
      [] fn = "remove_tracker" -> remove_tracker(v, args, kwargs)
      [] fn = "total_trackers" -> total_trackers(v, args, kwargs)
      [] fn = "list_trackers" -> viewer_list_trackers(v, args, kwargs)
      [] fn = "generate_basic_hints" ->
            generate_basic_hints(v, args, kwargs, max_results, FALSE)
      [] OTHER -> Failure("AttributeError")

(***************************************************************************)
(* The dispatcher (TogglExtension.process_query, match_results).           *)
(***************************************************************************)
\* the table of process_query, in the order it is written: keyword and the
\* attribute of the viewer it names
QueryMatch ==
    << [trg |-> "start", fn |-> "start_tracker"],
       [trg |-> "add", fn |-> "add_tracker"],
       [trg |-> "continue", fn |-> "continue_tracker"],
       [trg |-> "cont", fn |-> "continue_tracker"],
       [trg |-> "cnt", fn |-> "continue_tracker"],
       [trg |-> "stop", fn |-> "stop_tracker"],
       [trg |-> "end", fn |-> "stop_tracker"],
       [trg |-> "edit", fn |-> "edit_tracker"],
       [trg |-> "now", fn |-> "edit_tracker"],
       [trg |-> "delete", fn |-> "remove_tracker"],
       [trg |-> "del", fn |-> "remove_tracker"],
       [trg |-> "remove", fn |-> "remove_tracker"],
       [trg |-> "report", fn |-> "total_trackers"],
       [trg |-> "sum", fn |-> "total_trackers"],
       [trg |-> "list", fn |-> "list_trackers"],
       [trg |-> "project", fn |-> "list_projects"],
       [trg |-> "help", fn |-> "generate_basic_hints"] >>

Keywords == {QueryMatch[i].trg : i \in DOMAIN QueryMatch}

\* the evaluation of the dictionary display: looking up an attribute the
\* viewer does not have raises
query_match ==
    IF \E i \in DOMAIN QueryMatch : QueryMatch[i].fn \notin ViewerMethods
    THEN [exc |-> "AttributeError", dict |-> <<>>]
    ELSE [exc |-> "", dict |-> QueryMatch]

\* query_match.get(q): the position of the keyword in the table, 0 if none
query_match_get(dict, q) ==
    IF \E i \in DOMAIN dict : dict[i].trg = q
    THEN CHOOSE i \in DOMAIN dict : dict[i].trg = q
    ELSE 0

\* the threshold of match_query
threshold == 50

\* get_score(query, target) of the launcher, a number from 0 to 100: the
\* keywords in above score the threshold, the others one less
get_score(above, target) == IF target \in above THEN threshold ELSE threshold - 1

\* a fuzzy matching that takes every keyword with a positive score
match_query_any(above, target) == get_score(above, target) > 0

\* TogglExtension.match_query
match_query(above, target) == get_score(above, target) >= threshold

\* one call of a handler as match_results or process_query made it: the
\* arguments, the exception raised or the first entry returned, if any
Call(trg, fn, args, kwargs, r) ==
    [trg |-> trg, fn |-> fn, args |-> args, keys |-> DOMAIN kwargs,
     exc |-> IF r.exc = "" /\ r.list = <<>> THEN "empty" ELSE r.exc,
     first |-> IF r.list = <<>> THEN <<>> ELSE <<r.list[1]>>]

\* a bookkeeping of what has matched by keyword
matched_key_by_keyword(trg, fn) == trg

\* what matched_results holds for a handler that returned: the handler
matched_key(trg, fn) == fn

\* a dispatch that lets the mismatch of a handler through
is_skipped_never(exc) == FALSE

\* except TypeError: continue
is_skipped(exc) == exc = "TypeError"

RECURSIVE match_results_scan(_, _, _, _, _, _, _, _, _)
\* the loop of match_results from position i of the table on
match_results_scan(v, match_dict, i, args, kwargs, above, results, matched_results, calls) ==
    IF i > Len(match_dict) THEN [exc |-> "", list |-> results, calls |-> calls]
    ELSE
        LET trg == match_dict[i].trg
            fn  == match_dict[i].fn
            r   == call_handler(v, fn, args, kwargs)
            log == Append(calls, Call(trg, fn, args, kwargs, r))
        IN  IF matched_key(trg, fn) \in matched_results \/ ~match_query(above, trg)
            THEN match_results_scan(v, match_dict, i + 1, args, kwargs, above,
                                    results, matched_results, calls)
            ELSE IF r.exc # "" /\ is_skipped(r.exc)
            THEN match_results_scan(v, match_dict, i + 1, args, kwargs, above,
                                    results, matched_results, log)
            ELSE IF r.exc # ""
            THEN [exc |-> r.exc, list |-> results, calls |-> log]
            ELSE IF r.list = <<>>
            THEN [exc |-> "IndexError", list |-> results, calls |-> log]
            ELSE match_results_scan(v, match_dict, i + 1, args, kwargs, above,
                                    Append(results, r.list[1]),
                                    matched_results \cup {matched_key(trg, fn)}, log)

\* TogglExtension.match_results(*args, match_dict, query, **kwargs)
match_results(v, args, match_dict, kwargs, above) ==
    match_results_scan(v, match_dict, 1, args, kwargs, above, <<>>, {}, <<>>)

\* TogglExtension.generate_results: the entries up to the one counted
\* max_results
generate_results(actions, max) ==
    IF max >= 1 /\ Len(actions) > max THEN SubSeq(actions, 1, max) ELSE actions

\* TogglExtension.process_query(query, **kwargs), with the calls it made
process_query(t, s, running_, query_, kwargs, above) ==
    LET made == TogglViewer(t, s, running_)
        v    == made.viewer
        base == [NotShown EXCEPT !.op = "process_query", !.query = query_,
                                 !.kwargs = kwargs, !.above = above,
                                 !.runs = made.runs]
        seen == [base EXCEPT !.current = IF v.current_tracker = None
                                         THEN "none" ELSE "tracker"]
        raised(r, exc) == [r EXCEPT !.outcome = "raise", !.exc = exc]
        returned(r, items) == [r EXCEPT !.outcome = "ok", !.items = items]
        defaults(r, args) ==
            LET d == default_options(v, args)
            IN  IF d.exc # "" THEN raised(r, d.exc)
                ELSE returned(r, generate_results(d.list, max_results))
        q    == query_[1]
        rest == Tail(query_)
        at   == query_match_get(query_match.dict, q)
        exact == call_handler(v, query_match.dict[at].fn, rest,
                              SetItem(kwargs, "query", StrArg(<<q>>)))
        fuzzy == match_results(v, rest, query_match.dict, kwargs, above)
        results == IF at # 0
                   THEN [exc |-> exact.exc, list |-> exact.list,
                         calls |-> <<Call(q, query_match.dict[at].fn, rest,
                                          SetItem(kwargs, "query", StrArg(<<q>>)),
                                          exact)>>]
                   ELSE fuzzy
        routed == [seen EXCEPT !.route = IF at # 0 THEN "exact" ELSE "fuzzy",
                               !.calls = results.calls]
    IN  IF made.exc # "" THEN raised(base, made.exc)
        ELSE IF ~s.exists
        THEN returned([seen EXCEPT !.route = "warning"], pre_check_cli_warning)
        ELSE IF query_ = <<>> THEN defaults([seen EXCEPT !.route = "home"], <<>>)
        ELSE IF query_match.exc # "" THEN raised(seen, query_match.exc)
        ELSE IF results.exc # "" THEN raised(routed, results.exc)
        ELSE IF results.list = <<>>
        THEN defaults([routed EXCEPT !.fallback = TRUE], rest)
        ELSE IF rest # <<>> /\ rest[Len(rest)] = "@"
        THEN returned([routed EXCEPT !.augmented = TRUE],
                      generate_results(<<results.list[1]>> \o manager_list_projects(t),
                                       max_results))
        ELSE returned(routed, generate_results(results.list, max_results))

\* the tokens after the first token of a query
QueryRests == {<<>>, <<"@">>, <<"a">>, <<"a", "@">>}

\* a first token that is no keyword
NoKeyword == "stp"

\* the parsed arguments handed on with a query
QueryKwargs ==
    { EmptyDict,
      SetItem(EmptyDict, "refresh", [t |-> "bool", v |-> TRUE]),
      SetItem(EmptyDict, "tags", [t |-> "list", v |-> <<<<"a">>>>]) }

\* the sets of keywords that may score the threshold against a token
AboveSets ==
    (SUBSET {"stop", "end", "sum", "help"})
        \cup {Keywords, Keywords \ {"help"}, {"report", "sum"}}

\* the host delivers a query: nothing, a keyword or another token first
ProcessQuery ==
    /\ \E first \in Keywords \cup {NoKeyword, ""}, rest \in QueryRests,
          kwargs \in QueryKwargs, above \in AboveSets :
          /\ first = "" => (rest = <<>> /\ kwargs = EmptyDict)
          /\ first # NoKeyword => above = {}
          /\ shown' = process_query(tool, settings, running,
                                    IF first = "" THEN <<>> ELSE <<first>> \o rest,
                                    kwargs, above)
    /\ UNCHANGED <<now, ticks, tool, file, written, latest_trackers, project_list,
                   ret, query, parsed, settings, running>>

\* the handlers a table can be built from
MatchDict == SelectSeq(QueryMatch, LAMBDA e : e.fn \in ViewerMethods)

\* match_results on the table MatchDict, evaluated once for each viewer
\* (an entry is running, hints are shown, the entries of the tool) and input;
\* the innermost table is kept as an explicit function
match_results_runs ==
    [r \in BOOLEAN |-> [hints \in BOOLEAN |-> [i \in DOMAIN TrackerSets |->
     [args \in QueryRests |-> [kwargs \in QueryKwargs |->
        [above \in AboveSets |->
            match_results([current_tracker |->
                               check_running_runs[TRUE, TRUE, r].tracker,
                           hints |-> hints,
                           tool |-> [up |-> TRUE, trackers |-> i, projects |-> 1]],
                          args, MatchDict, kwargs, above)] @@ <<>>]]]]]

\* match_results is called on a viewer, with a table of its handlers
MatchResults ==
    /\ TogglViewer(tool, settings, running).exc = ""
    /\ \E args \in QueryRests, kwargs \in QueryKwargs, above \in AboveSets :
          LET v == TogglViewer(tool, settings, running).viewer
              m == match_results_runs[running][settings.hints][tool.trackers]
                                     [args][kwargs][above]
          IN  shown' = [NotShown EXCEPT
                            !.op = "match_results", !.query = <<NoKeyword>> \o args,
                            !.kwargs = kwargs, !.above = above,
                            !.outcome = IF m.exc = "" THEN "ok" ELSE "raise",
                            !.exc = m.exc, !.items = m.list, !.calls = m.calls,
                            !.current = IF v.current_tracker = None
                                        THEN "none" ELSE "tracker",
                            !.route = "fuzzy"]
    /\ UNCHANGED <<now, ticks, tool, file, written, latest_trackers, project_list,
                   ret, query, parsed, settings, running>>

\* a time entry is started or stopped outside the launcher
SetRunning ==
    /\ running' = ~running
    /\ shown' = NotShown
    /\ UNCHANGED <<now, ticks, tool, file, written, latest_trackers, project_list,
                   ret, query, parsed, settings>>

\* the user changes a preference: the hints, or the path of the tool
SetPreference ==
    /\ \E k \in {"exists", "hints"} : settings' = [settings EXCEPT ![k] = ~@]
    /\ shown' = NotShown
    /\ UNCHANGED <<now, ticks, tool, file, written, latest_trackers, project_list,
                   ret, query, parsed, running>>

NextDispatch == ProcessQuery \/ SetRunning \/ SetPreference \/ SetToolUp

\* the dispatcher on every query
SpecDispatch == Init /\ [][NextDispatch]_vars

NextMatch == MatchResults \/ SetRunning \/ SetPreference \/ SetToolUp

\* the fuzzy matching on every table of handlers
SpecMatch == Init /\ [][NextMatch]_vars

(***************************************************************************)
(* The commands that start, add and edit a time entry (TrackerCli).        *)
(***************************************************************************)
IntArg(n) == [t |-> "int", v |-> n]

\* re.sub(r"[\)\(#]", "", text)
without_id_marks(text) == SelectSeq(text, LAMBDA c : c \notin {")", "(", "#"})

\* TogglCli.format_id_str: the id of 'Name (#id)'; the text is split, which
\* only a string allows
format_id_str(text) ==
    IF text.t # "str" THEN [exc |-> "AttributeError", id |-> 0]
    ELSE LET parts == split(text.v, <<"(">>)
         IN  IF Len(parts) # 2 \/ ~IsInt(without_id_marks(parts[Len(parts)]))
             THEN [exc |-> "ValueError", id |-> 0]
             ELSE [exc |-> "", id |-> int(without_id_marks(parts[2]))]

\* TogglProjects.project_name_formatter: the id of 'Name (#id)'
project_name_formatter(name) ==
    LET parts == split(name, <<"(", "#">>)
        digits == SubSeq(parts[Len(parts)], 1, Len(parts[Len(parts)]) - 1)
    IN  IF Len(parts) # 2 \/ ~IsInt(digits)
        THEN [exc |-> "ValueError", id |-> 0]
        ELSE [exc |-> "", id |-> int(digits)]

\* an operation of the adapter ended: with an exception, with a message and
\* no command, or with the command it ran
CmdRaised(exc, cmd) == [exc |-> exc, ran |-> FALSE, cmd |-> cmd, msg |-> <<>>]

CmdRefused(msg) == [exc |-> "", ran |-> FALSE, cmd |-> <<>>, msg |-> msg]

\* TogglCli.base_command on a command of any values: " ".join(cmd) takes
\* strings only
run_command(cmd) ==
    IF \E i \in DOMAIN cmd : cmd[i].t # "str" THEN CmdRaised("TypeError", cmd)
    ELSE [exc |-> "", ran |-> TRUE, cmd |-> cmd, msg |-> <<>>]

\* the value of a key of the keyword arguments, or the default
kwargs_get(kwargs, key, default) ==
    IF key \in DOMAIN kwargs THEN kwargs[key] ELSE default

\* the truth value of an argument
truthy(x) ==
    CASE x.t = "bool" -> x.v
      [] x.t = "int" -> x.v # 0
      [] x.t = "none" -> FALSE
      [] OTHER -> x.v # <<>>

FalseArg == [t |-> "bool", v |-> FALSE]

NoneArg == [t |-> "none", v |-> <<>>]

\* str(pid) of an integer or a string
str_of(x) == IF x.t = "int" THEN StrArg(str(x.v)) ELSE x

\* TrackerCli.start_tracker(tracker)
tracker_cli_start_tracker(description, tags, project) ==
    LET cmd  == <<StrArg(<<"s", "t", "a", "r", "t">>), StrArg(description)>>
                    \o (IF tags.t # "none"
                        THEN <<StrArg(<<"-", "-", "t", "a", "g", "s">>), StrArg(join(<<",">>, tags.v))>>
                        ELSE <<>>)
        id   == format_id_str(project)
    IN  IF project.t = "none" THEN run_command(cmd)
        ELSE IF id.exc # "" THEN CmdRaised(id.exc, cmd \o <<StrArg(<<"-", "-", "p", "r", "o", "j", "e", "c", "t">>)>>)
        ELSE run_command(cmd \o <<StrArg(<<"-", "-", "p", "r", "o", "j", "e", "c", "t">>), StrArg(str(id.id))>>)

\* TrackerCli.add_tracker(*args, **kwargs)
tracker_cli_add_tracker(args, kwargs) ==
    LET start   == kwargs_get(kwargs, "start", FalseArg)
        stop    == kwargs_get(kwargs, "stop", FalseArg)
        desc    == [t |-> "tuple", v |-> SubSeq(args, 3, Min(3, Len(args)))]
        tags    == kwargs_get(kwargs, "tags", FalseArg)
        project == kwargs_get(kwargs, "project", FalseArg)
        cmd     == <<StrArg(<<"a", "d", "d">>), start, stop, desc>>
                       \o (IF truthy(tags)
                           THEN <<StrArg(<<"-", "-", "t", "a", "g", "s">>), StrArg(join(<<",">>, tags.v))>>
                           ELSE <<>>)
        id      == project_name_formatter(project.v)
    IN  IF ~truthy(start) THEN CmdRefused(<<"M", "i", "s", "s", "i", "n", "g", " ", "s", "t", "a", "r", "t", " ", "d", "a", "t", "e", "/", "t", "i", "m", "e", ".">>)
        ELSE IF ~truthy(stop) THEN CmdRefused(<<"M", "i", "s", "s", "i", "n", "g", " ", "s", "t", "o", "p", " ", "t", "i", "m", "e">>)
        ELSE IF ~truthy(desc) THEN CmdRefused(<<"N", "o", " ", "t", "r", "a", "c", "k", "e", "r", " ", "d", "e", "s", "c", "r", "i", "p", "t", "i", "o", "n", " ", "g", "i", "v", "e", "n", ".">>)
        ELSE IF ~truthy(project) THEN run_command(cmd)
        ELSE IF project.t = "str" /\ id.exc # ""
        THEN CmdRaised(id.exc, cmd \o <<StrArg(<<"-", "-", "p", "r", "o", "j", "e", "c", "t">>)>>)
        ELSE run_command(cmd \o <<StrArg(<<"-", "-", "p", "r", "o", "j", "e", "c", "t">>),
                                  IF project.t = "str" THEN StrArg(str(id.id))
                                  ELSE str_of(project)>>)

\* TrackerCli.edit_tracker(*args, **kwargs): every argument given is
\* appended as it is
tracker_cli_edit_tracker(kwargs) ==
    LET option(key, flag) ==
            IF kwargs_get(kwargs, key, NoneArg).t # "none"
            THEN <<StrArg(flag), kwargs[key]>> ELSE <<>>
        cmd == <<StrArg(<<"n", "o", "w">>)>>
                   \o option("description", <<"-", "-", "d", "e", "s", "c", "r", "i", "p", "t", "i", "o", "n">>)
                   \o option("project", <<"-", "-", "p", "r", "o", "j", "e", "c", "t">>)
                   \o option("start", <<"-", "-", "s", "t", "a", "r", "t">>)
                   \o option("tags", <<"-", "-", "t", "a", "g", "s">>)
    IN  IF Len(cmd) = 1 THEN [exc |-> "", ran |-> FALSE, cmd |-> <<>>, msg |-> <<>>]
        ELSE run_command(cmd)

\* the project references an operation is given: the display string of a
\* project and its id
ProjectRefs ==
    {StrArg(<<"p", "a", " ", "(", "#", "1", "2", ")">>), StrArg(<<"p", "b", " ", "(", "#", "7", ")">>), IntArg(12), IntArg(7)}

TagArgs == {[t |-> "list", v |-> <<<<"a">>, <<"b">>>>]}

\* what an operation of the adapter leaves: its outcome, the command and
\* the project it was given
CommandRet(op, r, project) ==
    [Idle EXCEPT !.op = op, !.kind = "tracker",
                 !.outcome = IF r.exc # "" THEN "raise" ELSE "ok",
                 !.exc = r.exc, !.msg = r.msg, !.cmd = r.cmd,
                 !.ext = IF r.ran THEN 1 ELSE 0,
                 !.failed = r.ran /\ ~tool.up,
                 !.project = <<project>>]

StartTracker ==
    /\ \E description \in {wa, rb}, tags \in TagArgs \cup {NoneArg},
          project \in ProjectRefs \cup {NoneArg} :
          ret' = CommandRet("start_tracker",
                            tracker_cli_start_tracker(description, tags, project),
                            project)
    /\ UNCHANGED <<settings, running, shown, now, ticks, tool, file, written,
                   latest_trackers, project_list, query, parsed>>

\* the keyword arguments made of the values given; an absent one is left out
Kwargs(pairs) ==
    LET keys == {k \in DOMAIN pairs : pairs[k].t # "none"}
    IN  [k \in keys |-> pairs[k]]

AddTracker ==
    /\ \E args \in {<<>>, <<<<"a">>, <<"b">>, wa>>},
          start \in {NoneArg, StrArg(<<"9", ":", "0", "0">>)}, stop \in {NoneArg, StrArg(<<"9", ":", "3", "0">>)},
          tags \in TagArgs \cup {NoneArg}, project \in ProjectRefs \cup {NoneArg} :
          ret' = CommandRet("add_tracker",
                            tracker_cli_add_tracker(
                                args, Kwargs([start |-> start, stop |-> stop,
                                              tags |-> tags, project |-> project])),
                            project)
    /\ UNCHANGED <<settings, running, shown, now, ticks, tool, file, written,
                   latest_trackers, project_list, query, parsed>>

EditTracker ==
    /\ \E description \in {NoneArg, StrArg(wa)}, tags \in TagArgs \cup {NoneArg},
          project \in ProjectRefs \cup {NoneArg} :
          ret' = CommandRet("edit_tracker",
                            tracker_cli_edit_tracker(
                                Kwargs([description |-> description, tags |-> tags,
                                        project |-> project])),
                            project)
    /\ UNCHANGED <<settings, running, shown, now, ticks, tool, file, written,
                   latest_trackers, project_list, query, parsed>>

NextCommands == StartTracker \/ AddTracker \/ EditTracker \/ SetToolUp

\* the commands of the tracker adapter
SpecCommands == Init /\ [][NextCommands]_vars

(***************************************************************************)
(* TogglCli.format_line on the lines of a table.                           *)
(***************************************************************************)
\* the most boundaries a line is cut at
MaxBoundaries == 2

\* what a column of a line holds: a name, padded to three characters, or
\* nothing
CellTexts == {<<"a", " ", " ">>, <<"b", "c", " ">>, <<" ", " ", " ">>}

\* the names a caller may have seen
SeenNames == {<<"a">>, <<"b", "c">>, <<>>}

\* the boundaries of a table of n + 1 columns: the offsets at which the
\* columns after the first begin
Boundaries(n) == [i \in 1..n |-> i * 3]

RECURSIVE Concat(_)
Concat(parts) == IF parts = <<>> THEN <<>> ELSE Head(parts) \o Concat(Tail(parts))

\* a caller cuts a line of a table at the boundaries of its header, with the
\* names it has seen
FormatLine ==
    /\ \E n \in 1..MaxBoundaries, names \in SUBSET SeenNames :
          \E cells \in [1..(n + 1) -> CellTexts] :
              LET r == format_line(Boundaries(n), Concat(cells), names)
              IN  ret' = [Idle EXCEPT !.op = "format_line", !.outcome = "ok",
                                      !.args = [header_size |-> Boundaries(n),
                                                item |-> Concat(cells),
                                                names |-> names],
                                      !.none = r.is_none, !.value = r.data]
    /\ UNCHANGED <<settings, running, shown, now, ticks, tool, file, written,
                   latest_trackers, project_list, query, parsed>>

NextTable == FormatLine \/ SetToolUp

\* the cutting of table lines
SpecTable == Init /\ [][NextTable]_vars

(***************************************************************************)
(* TogglExtension.generate_results on the entries an entered item returns. *)
(***************************************************************************)
\* the longest list of entries handed to generate_results
MaxActions == 3

\* the largest value of the max_results preference
MaxSetting == 4

\* the entries a list is made of
ActionEntries ==
    {QueryParameters("List", <<>>), QueryParameters("Start", <<>>),
     QueryParameters("Stop", <<>>)}

\* the lists of entries of a length
ActionLists(n) == [1..n -> ActionEntries]

\* an entered item returns a list of entries, which generate_results turns
\* into the results shown, under the max_results set in the preferences
GenerateResults ==
    /\ \E n \in 0..MaxActions, max \in 0..MaxSetting :
          \E actions \in ActionLists(n) :
              shown' = [NotShown EXCEPT !.op = "generate_results",
                                        !.actions = actions, !.max = max,
                                        !.outcome = "ok",
                                        !.items = generate_results(actions, max)]
    /\ UNCHANGED <<now, ticks, tool, file, written, latest_trackers, project_list,
                   ret, query, parsed, settings, running>>

NextResults == GenerateResults \/ SetPreference

\* the result surface
SpecResults == Init /\ [][NextResults]_vars


(***************************************************************************)
(* The properties.                                                         *)
(***************************************************************************)
\* the cache lengths as the specification states them: a day, two weeks
StatedTTL(kind) == IF kind = "tracker" THEN 86400 ELSE 1209600

\* C1: load_data on an envelope stored by cache_data returns the records
\* exactly when the envelope is younger than the cache length of its kind
\* (one day for trackers, two weeks for projects) and reports staleness
\* otherwise, so also at an age of exactly the cache length.
C1_FreshIffYoungerThanTTL ==
    (ret.op = "load_data" /\ ret.age >= 0) =>
        /\ ret.outcome = "ok"
        /\ (ret.age < StatedTTL(ret.kind) => ret.load = "hit")
        /\ (ret.age >= StatedTTL(ret.kind) => ret.load = "stale" /\ ret.value = <<>>)

\* a project envelope aged exactly two weeks was loaded and found stale
C1_StaleAtTTL ==
    /\ ret.op = "load_data" /\ ret.kind = "project"
    /\ ret.age = 1209600
    /\ ret.load = "stale"

\* C2: load_data within the cache length after cache_data(records) returns
\* records: the same records in the same order, each of its original kind,
\* without the capture timestamp.
C2_RoundTrip ==
    (ret.op = "load_data" /\ ret.age >= 0 /\ ret.age < StatedTTL(ret.kind)) =>
        /\ ret.outcome = "ok"
        /\ ret.value = written[ret.kind].data

\* two or more tracker records were stored and loaded back
C2_LoadedSeveral ==
    /\ ret.op = "load_data" /\ ret.kind = "tracker"
    /\ ret.load = "hit"
    /\ Len(ret.value) >= 2
    /\ ret.value[1] # ret.value[2]

\* C3: a second list_trackers(refresh=False) without time filter, right after
\* a first one and with nothing changed in between, returns the same records
\* and does not run the tool.
C3_RepeatedListServedFromCache ==
    ret.rep => (ret.outcome = "ok" /\ ret.same /\ ret.ext = 0)

\* C4: list_trackers with refresh set or with a time filter runs the tool and
\* returns nothing taken from the in-memory list or the cache file.
C4_RefreshOrFilterBypassesCache ==
    (ret.op = "list_trackers" /\ (ret.refresh \/ ret.times)) =>
        /\ ret.ext >= 1
        /\ ret.load = "skip"
        /\ ret.src \notin {"memory", "file"}

\* a time-filtered listing ran the tool although a fresh cache file existed
C4_FilteredPastFreshCache ==
    /\ ret.op = "list_trackers" /\ ret.times /\ ~ret.refresh
    /\ ret.src = "tool"
    /\ written["tracker"].valid
    /\ now - written["tracker"].at < StatedTTL("tracker")
    /\ written["tracker"].data # ret.value

\* C5: after every list_trackers that ran the tool and succeeded, the tracker
\* cache file holds exactly the records returned, stamped with the time of
\* the call.
C5_EveryFetchStoresCache ==
    (ret.op = "list_trackers" /\ ret.ext >= 1 /\ ret.outcome = "ok") =>
        /\ file["tracker"] = cache_data(ret.value, now)
        /\ written["tracker"] = [valid |-> TRUE, at |-> now, data |-> ret.value]

\* C6: a list_projects served from the in-memory list or from the cache file
\* leaves the project cache file as it was.
C6_CacheHitLeavesFile ==
    [][(ret'.op = "list_projects" /\ ret'.src \in {"memory", "file"})
          => file'["project"] = file["project"]]_vars

\* a list_projects was served from a cache file holding records
C6_ServedFromFile ==
    /\ ret.op = "list_projects"
    /\ ret.src = "file"
    /\ ret.value # <<>>
    /\ file["project"].st = "json"

C8_LoaderNeverRaises ==
    ret.op \in {"list_trackers", "list_projects"} => ret.load # "raise"

\* the message stop_tracker falls back to
StopFallback ==
    <<"T", "o", "g", "g", "l", " ", "t", "r", "a", "c", "k", "e", "r", " ",
      "n", "o", "t", " ", "r", "u", "n", "n", "i", "n", "g", "!">>

\* C9: when the run of the tool fails, the operation raises nothing:
\* list_trackers returns the last known records and stop_tracker its
\* fallback message.
C9_ToolFailureRecovered ==
    ret.failed =>
        /\ ret.outcome = "ok"
        /\ (ret.op = "list_trackers" => ret.value = latest_trackers)
        /\ (ret.op = "stop_tracker" => ret.msg = StopFallback)

\* C10: parse_query raises on no query.
C10_TokenizationNeverFails == parsed.outcome # "raise"

\* the keys of the fields a query was put together from, with their values
FieldArguments(c) ==
    LET keys == {"description"}
                  \cup {k \in {"project", "tags", "duration", "refresh"} : c[k].txt # <<>>}
    IN  [k \in keys |-> c[k].val]

\* C11: for a query made of a double-quoted phrase followed by sigil tokens,
\* parse_query returns exactly the keys of the fields typed: description the
\* phrase, project the text after @ as an integer when numeric and as text
\* otherwise, tags the text after # split on commas, duration the text
\* between > and <, refresh true; no start and no stop key.
C11_FieldExtraction ==
    \A c \in FieldParts :
        (query = FieldQuery(c) /\ parsed.outcome # "none") =>
            /\ parsed.outcome = "ok"
            /\ DOMAIN parsed.arguments = DOMAIN FieldArguments(c)
            /\ \A k \in DOMAIN FieldArguments(c) : parsed.arguments[k] = FieldArguments(c)[k]

\* a query with all five fields was parsed, the project typed as a number
C11_AllFieldsParsed ==
    /\ parsed.outcome = "ok"
    /\ DOMAIN parsed.arguments = {"description", "project", "tags", "duration", "refresh"}
    /\ parsed.arguments["project"].t = "int"
    /\ Len(parsed.arguments["tags"].v) = 2

\* add >9:00 AM <5 PM
AmPmQuery ==
    <<"a", "d", "d", " ", ">", "9", ":", "0", "0", " ", "A", "M",
      " ", "<", "5", " ", "P", "M">>

\* C12: a >value token followed by the token AM or PM gives start "value AM"
\* or "value PM", and likewise a <value token gives stop.
C12_AmPmMerged ==
    (query = AmPmQuery /\ parsed.outcome # "none") =>
        /\ parsed.outcome = "ok"
        /\ "start" \in DOMAIN parsed.arguments
        /\ parsed.arguments["start"] = StrArg(<<"9", ":", "0", "0", " ", "A", "M">>)
        /\ "stop" \in DOMAIN parsed.arguments
        /\ parsed.arguments["stop"] = StrArg(<<"5", " ", "P", "M">>)

\* start "a #b" @x
QuotedSigilQuery ==
    <<"s", "t", "a", "r", "t", " ", "\"", "a", " ", "#", "b", "\"", " ", "@", "x">>

\* C13: a double-quoted phrase holding a sigil is extracted whole as the
\* description, and no word inside the quotes is read as a token.
C13_QuotedPhraseProtected ==
    (query = QuotedSigilQuery /\ parsed.outcome # "none") =>
        /\ parsed.outcome = "ok"
        /\ "description" \in DOMAIN parsed.arguments
        /\ parsed.arguments["description"] = StrArg(<<"a", " ", "#", "b">>)
        /\ DOMAIN parsed.arguments = {"description", "project"}

(***************************************************************************)
(* The dispatcher.                                                         *)
(***************************************************************************)
\* process_query ran on a query whose first token is a keyword, after the
\* running entry was read
ExactQueryShown ==
    /\ shown.op = "process_query"
    /\ shown.current # "unknown"
    /\ shown.query # <<>>
    /\ shown.query[1] \in Keywords

\* C14: a query whose first token is a registered keyword invokes that
\* keyword's handler once, with the remaining tokens and the parsed
\* arguments, without fuzzy matching, and completes with the handler's list
\* instead of raising.
C14_ExactDispatchCompletes ==
    ExactQueryShown =>
        /\ shown.outcome = "ok"
        /\ shown.route = "exact"
        /\ Len(shown.calls) = 1
        /\ shown.calls[1].trg = shown.query[1]
        /\ shown.calls[1].args = Tail(shown.query)
        /\ shown.calls[1].keys = DOMAIN shown.kwargs \cup {"query"}
        /\ shown.calls[1].exc \in {"", "empty"}

\* the calls of a dispatch that returned an entry, for one handler and all
ReturnedCalls(fn) ==
    {i \in DOMAIN shown.calls : shown.calls[i].fn = fn /\ shown.calls[i].exc = ""}

AllReturned == {i \in DOMAIN shown.calls : shown.calls[i].exc = ""}

\* C15: in the fuzzy matching each handler is successfully invoked at most
\* once and contributes at most one entry, however many of its keywords
\* score the threshold of 50 or more, and a keyword scoring less causes no
\* invocation.
C15_FuzzyOncePerHandler ==
    shown.op = "match_results" =>
        /\ \A i \in DOMAIN shown.calls : shown.calls[i].trg \in shown.above
        /\ \A fn \in ViewerMethods : Cardinality(ReturnedCalls(fn)) <= 1
        /\ Len(shown.items) = Cardinality(AllReturned)

\* 'stop' and 'end' both score the threshold and the stop handler ran once
C15_SynonymsMatchedOnce ==
    /\ shown.op = "match_results"
    /\ {"stop", "end"} \subseteq shown.above
    /\ shown.outcome = "ok"
    /\ Cardinality(ReturnedCalls("stop_tracker")) = 1
    /\ \E i \in ReturnedCalls("stop_tracker") : shown.calls[i].trg = "stop"

\* the entries the calls of a dispatch returned first, in the order of the
\* calls
RECURSIVE FirstEntries(_)
FirstEntries(calls) ==
    IF calls = <<>> THEN <<>>
    ELSE (IF calls[1].exc = "" THEN calls[1].first ELSE <<>>)
             \o FirstEntries(Tail(calls))

\* C16: in the fuzzy matching every matched handler is invoked with no
\* positional argument, the remaining tokens of the query are not passed on,
\* and only the first entry of what it returns is taken.
C16_FuzzyCallsWithoutTokens ==
    shown.op = "match_results" =>
        /\ \A i \in DOMAIN shown.calls : shown.calls[i].args = <<>>
        /\ shown.items = FirstEntries(shown.calls)

\* the calls of a dispatch that raised a mismatch of the handler's signature
MismatchedCalls == {i \in DOMAIN shown.calls : shown.calls[i].exc = "TypeError"}

ShownViewer == TogglViewer(tool, settings, running).viewer

\* the last token after the first is the literal @
TrailingAt ==
    Len(shown.query) >= 2 /\ shown.query[Len(shown.query)] = "@"

\* C18: when the dispatch of a non-empty query yields no result at all,
\* process_query returns the default option set, without the project list
\* even when the last token is @.  A first token that is no keyword, with no
\* keyword scoring the threshold, is such a query.
C18_NoResultFallsBackToDefaults ==
    (/\ shown.op = "process_query"
     /\ shown.current # "unknown"
     /\ shown.query # <<>>
     /\ shown.query[1] \notin Keywords
     /\ shown.above = {}) =>
        /\ shown.outcome = "ok"
        /\ shown.fallback
        /\ ~shown.augmented
        /\ shown.items =
               generate_results(default_options(ShownViewer, Tail(shown.query)).list,
                                max_results)

\* C19: when the dispatch yields a result and the last token is the literal
\* @, the list returned is the first result followed by the project list in
\* its order; without the trailing @ no project is appended.  The delete
\* keywords always yield a result.
C19_TrailingAtAppendsProjects ==
    (ExactQueryShown /\ shown.query[1] \in {"delete", "del", "remove"}) =>
        LET primary == remove_tracker(ShownViewer, Tail(shown.query), shown.kwargs).list
        IN  /\ shown.outcome = "ok"
            /\ shown.augmented = TrailingAt
            /\ shown.items =
                   IF TrailingAt
                   THEN generate_results(<<primary[1]>> \o manager_list_projects(tool),
                                         max_results)
                   ELSE generate_results(primary, max_results)

\* the names of the entries shown
ShownNames == {shown.items[i].name : i \in DOMAIN shown.items}

\* process_query ran on the empty query after the running entry was read
EmptyQueryShown ==
    shown.op = "process_query" /\ shown.query = <<>> /\ shown.current # "unknown"

MissingPathShown == shown.op = "process_query" /\ ~settings.exists

\* C21: while the configured path of the tool does not exist every query,
\* empty, exact, fuzzy or with a trailing @, returns the configuration
\* warning entries, and neither a handler nor the default option set is
\* produced.
C21_MissingPathWarns ==
    MissingPathShown =>
        /\ shown.outcome = "ok"
        /\ shown.route = "warning"
        /\ shown.items = pre_check_cli_warning
        /\ shown.calls = <<>>

(***************************************************************************)
(* The result surface.                                                     *)
(***************************************************************************)
\* C22: for every list of entries and every non-negative max_results,
\* generate_results returns the entries in their order and never more than
\* max_results of them: the prefix of length min(len, max_results).
C22_ResultsTruncated ==
    shown.op = "generate_results" =>
        shown.items = SubSeq(shown.actions, 1, Min(Len(shown.actions), shown.max))

(***************************************************************************)
(* The commands of the adapter.                                            *)
(***************************************************************************)
\* the numeric id a project reference stands for
RefId(ref) ==
    CASE ref = StrArg(<<"p", "a", " ", "(", "#", "1", "2", ")">>) -> 12
      [] ref = StrArg(<<"p", "b", " ", "(", "#", "7", ")">>) -> 7
      [] OTHER -> ref.v

\* start, add or edit was given a project reference and did not refuse the
\* call for a missing time or description
ProjectGiven ==
    /\ ret.op \in {"start_tracker", "add_tracker", "edit_tracker"}
    /\ ret.project[1] \in ProjectRefs
    /\ ret.msg = <<>>

\* C23: for start, add and edit, a project given as the display string
\* 'Name (#123)' or as the integer id reaches the command as the numeric id
\* after --project, and the command is built and run.
C23_ProjectIdResolved ==
    ProjectGiven =>
        /\ ret.outcome = "ok"
        /\ ret.ext = 1
        /\ \E i \in DOMAIN ret.cmd :
              /\ ret.cmd[i] = StrArg(<<"-", "-", "p", "r", "o", "j", "e", "c", "t">>)
              /\ i < Len(ret.cmd)
              /\ ret.cmd[i + 1] = StrArg(str(RefId(ret.project[1])))

(***************************************************************************)
(* The caches of the listings, again.                                      *)
(***************************************************************************)
\* the tracker envelope on file is as old as the cache length or older
StaleTrackerFile ==
    /\ written["tracker"].valid
    /\ now - written["tracker"].at >= StatedTTL("tracker")

\* C24: when the envelope on file is older than the cache length, a list
\* call with refresh unset raises nothing and does not return the old
\* records: it runs the tool, returns the records fetched, and leaves an
\* envelope stamped with the time of the call that holds them.  Stated for
\* list_trackers without time filter while the tool answers.
C24_StaleCacheRefreshed ==
    [][(/\ StaleTrackerFile
        /\ tool.up
        /\ ret'.op = "list_trackers" /\ ~ret'.refresh /\ ~ret'.times)
          => /\ ret'.outcome = "ok"
             /\ ret'.ext = 1
             /\ ret'.src = "tool"
             /\ written'["tracker"] = [valid |-> TRUE, at |-> now, data |-> ret'.value]
             /\ file'["tracker"] = cache_data(ret'.value, now)]_vars

(***************************************************************************)
(* The tables of the tool.                                                 *)
(***************************************************************************)
\* the first field of the line format_line was given
FirstField == strip(Slice(ret.args.item, 0, ret.args.header_size[1]))

\* C25: format_line returns no record for a line whose first field is a seen
\* name, and for every other line a record of one trimmed field more than
\* there are boundaries; another field that equals a seen name or is empty
\* discards nothing.
C25_OnlyFirstFieldDiscards ==
    ret.op = "format_line" =>
        /\ ret.none <=> FirstField \in ret.args.names
        /\ ~ret.none => Len(ret.value) = Len(ret.args.header_size) + 1

\* C26: the records of a time-filtered listing never reach a listing without
\* filter: a list_trackers with a time filter neither keeps its records as
\* the in-memory list nor writes them to the cache file, so a later call
\* without filter and without refresh cannot return them.
C26_FilteredListingNotKept ==
    [][(ret'.op = "list_trackers" /\ ret'.times /\ ret'.outcome = "ok")
          => /\ latest_trackers' = latest_trackers
             /\ file'["tracker"] = file["tracker"]]_vars

\* the projects a listing of the rows is to hold: the rows whose name no
\* earlier row has and, when only active projects are asked for, whose
\* active column is True, in the order of the rows
QualifyingProjects(rows, active) ==
    LET qualifies(i) ==
            /\ \A j \in 1..(i - 1) : rows[j].name # rows[i].name
            /\ active => rows[i].active = wTrue
        project(p) == TProject(p.name, int(p.id), p.client, p.color, p.active = wTrue)
        RECURSIVE from(_)
        from(i) == IF i > Len(rows) THEN <<>>
                   ELSE (IF qualifies(i) THEN <<project(rows[i])>> ELSE <<>>)
                            \o from(i + 1)
    IN  from(1)

\* C27: a list_projects that runs the tool returns one project for every
\* row after the header whose name no earlier row has and which is active
\* (every such row when active is unset), in the order of the output: the
\* header is not parsed as a record and no qualifying row is skipped.
C27_EveryProjectRowListed ==
    (ret.op = "list_projects" /\ ret.ext = 1 /\ ~ret.failed) =>
        /\ ret.outcome = "ok"
        /\ ret.value = QualifyingProjects(ProjectSets[tool.projects], ret.active)

(***************************************************************************)
(* The fuzzy matching and the missing tool, again.                         *)
(***************************************************************************)
\* C28: the fuzzy matching never raises: whatever the matched handlers do,
\* also when one returns an empty list, match_results completes and returns
\* the first entries of the others.
C28_FuzzyNeverRaises ==
    shown.op = "match_results" =>
        /\ shown.outcome = "ok"
        /\ shown.items = FirstEntries(shown.calls)

\* C29: while the configured path of the tool does not exist, processing a
\* query runs no command of the tool at all, the check for a running entry
\* included: the test of the path comes first.
C29_MissingPathRunsNothing ==
    MissingPathShown => shown.runs = <<>>

====
